---- MODULE Spec2Model ----
(***************************************************************************)
(* Rolling-deployment orchestration of the Cloud Foundry v3 Terraform      *)
(* provider: the deployment resource (resourceDeploymentCreate and its     *)
(* retry wrapper), the update path of the monolithic app resource          *)
(* (resourceAppUpdate with its inline retry loop), the package/build       *)
(* pipeline (createBuildpackDroplet, createDockerDroplet) and the process  *)
(* instance stability tracker (processInstanceStateFunc).                  *)
(*                                                                         *)
(* One resource operation runs per behaviour.  Every remote call is one    *)
(* step whose response is chosen by the platform.                          *)
(***************************************************************************)
EXTENDS Integers, Sequences, FiniteSets, TLC

\* ------------------------------------------------------------------ bounds
\* pending polls one wait may see; the next pending poll is past its timeout
MaxPolls == 1
\* instances one get-process-instances response may list
MaxInstances == 2
\* processes one process listing may return
MaxProcesses == 2
\* warnings the platform returns in the course of one operation
MaxWarnings == 1
MaxEnvKeys == 2

\* ------------------------------------------------------- program constants
MaxDeploymentAttempts == 3
maxDeployAttempts == 5

ProcessInstancesPending == "PENDING"
ProcessInstancesStable == "STABLE"
ProcessInstancesCrashed == "CRASHED"
processInstancePendingStates == {ProcessInstancesPending}
processInstanceSuccessStates == {ProcessInstancesStable}

deploymentPendingStates == {"DEPLOYING"}
deploymentSuccessStates == {"DEPLOYED"}

VARIABLES
    op,             \* the resource operation that runs
    ctxDone,        \* its context ctx is cancelled
    pc,             \* its position
    cfg,            \* the resource data d: the configuration and its diff
    id,             \* d.Id()
    diags,          \* the diagnostics collected so far (returned at "done")
    app,            \* the application record of the last getApplication
    currentDroplet, \* GUID of the application's current droplet ("" if none)
    desiredDroplet, \* the droplet record to deploy
    currentDeployAttempt,
    deploymentGUID, \* deployment of the running attempt (0: none)
    processes,      \* processes the range loop has still to visit, the current one included
    process,        \* desired instance count of the current process
    polls,          \* pending polls seen by the running wait
    refreshed,      \* what the refresh function just returned, not yet seen by the wait
    errs,           \* diagnostics of the running attempt / error of the wait that ended last
    \* the platform
    packages,       \* packages created
    builds,         \* builds created
    staged,         \* droplets of builds that were observed staged
    deployments,    \* deployment records created
    deploying,      \* the deployments of them that the platform holds in status deploying
                    \* (a new deployment of the application supersedes the one in progress)
    desiredInstances, \* platform: the desired instance count of the current process
    appDroplet,     \* GUID of the application's current droplet on the platform
    environment,    \* platform: the application's environment variables
    envUpdates,     \* the environment updates sent, in order
    \* what was observed, for the properties
    createCalls,    \* create-deployment calls made
    failedSteps,    \* how the attempts so far failed: "create-deployment" (the call failed),
                    \* "deployment failed" (finalized, not deployed), "other"
    attemptObs,     \* what the running attempt has observed
    rollout,        \* outcome of the deployment orchestrator
    seen            \* remote calls made and what the run-state reconciliation observed

platform == <<packages, builds, staged, deployments, deploying, appDroplet>>
locals == <<app, currentDroplet, desiredDroplet, currentDeployAttempt,
            deploymentGUID, processes, process, polls, refreshed, errs>>
observed == <<createCalls, failedSteps, attemptObs, rollout, seen>>
vars == <<op, ctxDone, pc, cfg, id, diags, locals, platform, desiredInstances, environment,
         envUpdates, observed>>

\* ------------------------------------------------------------------ values
NoErr == ""
NoRefresh == [fresh |-> FALSE, nil |-> TRUE, instances |-> <<>>, label |-> "", err |-> NoErr]
NoDroplet == [GUID |-> "", State |-> ""]
NoApp == [GUID |-> "", State |-> "", LifecycleType |-> ""]
\* the environment the application has on the platform before the operation, and the
\* environment block of the configuration
AppEnvironment == [k \in {"KEY1", "KEY2"} |-> "1"]
ConfiguredEnvironment == [k \in {"KEY2", "KEY3"} |-> IF k = "KEY2" THEN "" ELSE "1"]
NoCfg == [state |-> "", source_code_path |-> "", docker_image |-> "",
          changed |-> {}, droplet_id |-> "", type |-> "", environment |-> ConfiguredEnvironment]
\* nothing called, nothing found missing, no warning returned, nothing reconciled
NoSeen == [created |-> "", setDroplet |-> 0, start |-> 0, stop |-> 0, missing |-> "",
           warnings |-> 0, state |-> "", listed |-> "", trace |-> <<>>,
           package |-> [Type |-> "", DockerImage |-> ""]]
NoObs == [deployment |-> "none", status |-> "", reason |-> "", processes |-> -1, stable |-> 0,
          failed |-> 0]

ProcessInstanceStates == {"RUNNING", "CRASHED", "STARTING"}
DeploymentFailureReasons == {"CANCELED", "SUPERSEDED"}
DropletStates == {"STAGED", "FAILED"}

RECURSIVE SeqsUpTo(_, _)
SeqsUpTo(S, n) ==
    IF n = 0 THEN {<<>>}
    ELSE LET shorter == SeqsUpTo(S, n - 1)
         IN  shorter \cup {Append(s, x) : s \in {t \in shorter : Len(t) = n - 1}, x \in S}

InstanceLists == SeqsUpTo(ProcessInstanceStates, MaxInstances)

\* diagnostics
ErrorDiag(summary, detail) == [severity |-> "Error", summary |-> summary, detail |-> detail]
WarningDiag(summary, detail) == [severity |-> "Warning", summary |-> summary, detail |-> detail]
FromErr(err) == ErrorDiag(err, "")
HasError(ds) == \E i \in 1..Len(ds) : ds[i].severity = "Error"

\* diagFromClient: one warning diagnostic for each warning, then one error diagnostic
\* unless the error is nil
diagFromClient(detail, warns, err) ==
    [i \in 1..Len(warns) |-> WarningDiag(warns[i], detail)]
        \o (IF err = NoErr THEN <<>> ELSE <<ErrorDiag(err, detail)>>)

\* the warnings the platform may return with an answer
Warnings == {<<>>, <<"platform warning">>}

CCError == "cloud controller error"
\* ctx.Err() of a cancelled context
ContextCanceled == "context canceled"
\* the client's error for a 404 answer of the platform
ResourceNotFoundError == "resource not found"
\* the wait's own error once it has had more than NotFoundChecks results in a row that
\* are nil with no error
NotFoundError == "couldn't find resource"
TimeoutErr(target) == "timeout while waiting for state to become '" \o target \o "'"
UnexpectedStateErr(label) == "unexpected state '" \o label \o "'"
DeploymentFailedErr(reason) == "deployment failed: " \o reason
CrashedErr(n) == "all " \o ToString(n) \o " process instances are in a crashed state"

\* ------------------------------------------------ the refresh functions
\* What the platform may answer to get-process-instances
GetProcessInstancesResponses ==
    {[err |-> CCError, instances |-> <<>>]}
    \cup {[err |-> NoErr, instances |-> l] : l \in InstanceLists}

\* variants of processInstanceStateFunc: the crashed test before the stable test,
\* the crashed verdict without its error, the crashed test against the desired count
processInstanceStateFunc_CrashedFirst(resp, desired) ==
    IF resp.err # NoErr
    THEN [fresh |-> TRUE, nil |-> TRUE, instances |-> <<>>, label |-> "", err |-> resp.err]
    ELSE LET instances == resp.instances
             runningInstances == SelectSeq(instances, LAMBDA s : s = "RUNNING")
             crashedInstances == SelectSeq(instances, LAMBDA s : s = "CRASHED")
         IN  IF Len(crashedInstances) = Len(instances)
             THEN [fresh |-> TRUE, nil |-> FALSE, instances |-> instances,
                   label |-> ProcessInstancesCrashed, err |-> CrashedErr(Len(instances))]
             ELSE IF Len(instances) = 0 \/ Len(runningInstances) = desired
             THEN [fresh |-> TRUE, nil |-> FALSE, instances |-> instances,
                   label |-> ProcessInstancesStable, err |-> NoErr]
             ELSE [fresh |-> TRUE, nil |-> FALSE, instances |-> instances,
                   label |-> ProcessInstancesPending, err |-> NoErr]

processInstanceStateFunc_CrashedIsPending(resp, desired) ==
    IF resp.err # NoErr
    THEN [fresh |-> TRUE, nil |-> TRUE, instances |-> <<>>, label |-> "", err |-> resp.err]
    ELSE LET instances == resp.instances
             runningInstances == SelectSeq(instances, LAMBDA s : s = "RUNNING")
         IN  IF Len(instances) = 0 \/ Len(runningInstances) = desired
             THEN [fresh |-> TRUE, nil |-> FALSE, instances |-> instances,
                   label |-> ProcessInstancesStable, err |-> NoErr]
             ELSE [fresh |-> TRUE, nil |-> FALSE, instances |-> instances,
                   label |-> ProcessInstancesPending, err |-> NoErr]

processInstanceStateFunc_CrashedOfDesired(resp, desired) ==
    IF resp.err # NoErr
    THEN [fresh |-> TRUE, nil |-> TRUE, instances |-> <<>>, label |-> "", err |-> resp.err]
    ELSE LET instances == resp.instances
             runningInstances == SelectSeq(instances, LAMBDA s : s = "RUNNING")
             crashedInstances == SelectSeq(instances, LAMBDA s : s = "CRASHED")
         IN  IF Len(instances) = 0 \/ Len(runningInstances) = desired
             THEN [fresh |-> TRUE, nil |-> FALSE, instances |-> instances,
                   label |-> ProcessInstancesStable, err |-> NoErr]
             ELSE IF Len(crashedInstances) = desired
             THEN [fresh |-> TRUE, nil |-> FALSE, instances |-> instances,
                   label |-> ProcessInstancesCrashed, err |-> CrashedErr(Len(instances))]
             ELSE [fresh |-> TRUE, nil |-> FALSE, instances |-> instances,
                   label |-> ProcessInstancesPending, err |-> NoErr]

\* processInstanceStateFunc: one refresh of the stability poll; resp is the answer to
\* get-process-instances, desired is process.Instances.Value
processInstanceStateFunc(resp, desired) ==
    IF resp.err # NoErr
    THEN [fresh |-> TRUE, nil |-> TRUE, instances |-> <<>>, label |-> "", err |-> resp.err]
    ELSE LET instances == resp.instances
             runningInstances == SelectSeq(instances, LAMBDA s : s = "RUNNING")
             crashedInstances == SelectSeq(instances, LAMBDA s : s = "CRASHED")
         IN  IF Len(instances) = 0 \/ Len(runningInstances) = desired
             THEN [fresh |-> TRUE, nil |-> FALSE, instances |-> instances,
                   label |-> ProcessInstancesStable, err |-> NoErr]
             ELSE IF Len(crashedInstances) = Len(instances)
             THEN [fresh |-> TRUE, nil |-> FALSE, instances |-> instances,
                   label |-> ProcessInstancesCrashed, err |-> CrashedErr(Len(instances))]
             ELSE [fresh |-> TRUE, nil |-> FALSE, instances |-> instances,
                   label |-> ProcessInstancesPending, err |-> NoErr]

\* What the platform may answer to get-deployment
GetDeploymentResponses ==
    {[err |-> CCError, StatusValue |-> "", StatusReason |-> ""],
     [err |-> ResourceNotFoundError, StatusValue |-> "", StatusReason |-> ""],
     [err |-> NoErr, StatusValue |-> "DEPLOYING", StatusReason |-> ""],
     [err |-> NoErr, StatusValue |-> "ACTIVE", StatusReason |-> "DEPLOYING"],
     [err |-> NoErr, StatusValue |-> "FINALIZED", StatusReason |-> "DEPLOYED"]}
    \cup {[err |-> NoErr, StatusValue |-> "FINALIZED", StatusReason |-> r] :
             r \in DeploymentFailureReasons}

\* variant of deploymentStateFunc: a finalized deployment is a success whatever its reason
deploymentStateFunc_AnyReason(resp) ==
    IF resp.err # NoErr THEN [nil |-> TRUE, label |-> "", err |-> resp.err]
    ELSE IF resp.StatusValue = "FINALIZED"
         THEN [nil |-> FALSE, label |-> "DEPLOYED", err |-> NoErr]
         ELSE [nil |-> FALSE, label |-> "DEPLOYING", err |-> NoErr]

\* the running attempt's deployment on the platform, as the answer resp to a
\* get-deployment shows it: a finalized deployment is no longer deploying
PlatformDeploying(resp) ==
    IF resp.err = NoErr /\ resp.StatusValue = "FINALIZED"
    THEN deploying \ {deploymentGUID} ELSE deploying

\* deploymentStateFunc: one refresh of the deployment poll
deploymentStateFunc(resp) ==
    IF resp.err # NoErr THEN [nil |-> TRUE, label |-> "", err |-> resp.err]
    ELSE IF resp.StatusValue = "FINALIZED"
         THEN IF resp.StatusReason = "DEPLOYED"
              THEN [nil |-> FALSE, label |-> "DEPLOYED", err |-> NoErr]
              ELSE [nil |-> TRUE, label |-> "FAILED",
                    err |-> DeploymentFailedErr(resp.StatusReason)]
         ELSE [nil |-> FALSE, label |-> "DEPLOYING", err |-> NoErr]

\* One poll cycle of StateChangeConf.WaitForStateContext on the refresh result r,
\* after n pending polls: "target", "pending" or "error" with the wait's error.
\* The wait's timeout ends it at the pending poll that follows MaxPolls pending ones.
\* A result that is nil with no error is the wait's "not found": it is passed over
\* NotFoundChecks times in a row (n of them so far, when every poll gave one).
NotFoundChecks == 2

WaitForState(r, pending, target, n) ==
    IF r.err # NoErr THEN [kind |-> "error", err |-> r.err]
    ELSE IF r.nil
         THEN IF n < NotFoundChecks THEN [kind |-> "pending", err |-> NoErr]
              ELSE [kind |-> "error", err |-> NotFoundError]
    ELSE IF r.label \in target THEN [kind |-> "target", err |-> NoErr]
    ELSE IF r.label \in pending
         THEN IF n < MaxPolls THEN [kind |-> "pending", err |-> NoErr]
              ELSE [kind |-> "error", err |-> TimeoutErr(CHOOSE t \in target : TRUE)]
    ELSE [kind |-> "error", err |-> UnexpectedStateErr(r.label)]

\* What a poll of a wait sees of the answers S of the platform: the answer to its
\* refresh, or, once the context is cancelled, no answer but the context's error
Polled(S) ==
    IF ctxDone THEN {[r EXCEPT !.err = ContextCanceled] : r \in {x \in S : x.err = CCError}}
    ELSE S

\* ----------------------------------------------------------------- Init
Init ==
    /\ op = "none" /\ ctxDone = FALSE /\ pc = "idle" /\ cfg = NoCfg /\ id = "" /\ diags = <<>>
    /\ app = NoApp /\ currentDroplet = "" /\ desiredDroplet = NoDroplet
    /\ currentDeployAttempt = 0 /\ deploymentGUID = 0
    /\ processes = 0 /\ process = 0 /\ polls = 0 /\ refreshed = NoRefresh
    /\ desiredInstances = 0
    /\ environment = AppEnvironment /\ envUpdates = <<>>
    /\ errs = <<>>
    /\ packages = 0 /\ builds = 0 /\ staged = {} /\ deployments = 0 /\ deploying = {}
    /\ appDroplet = ""
    /\ createCalls = 0 /\ failedSteps = {} /\ attemptObs = NoObs /\ rollout = "none"
    /\ seen = NoSeen

\* return diags, with the diagnostics ds appended
Return(ds) == pc' = "done" /\ diags' = diags \o ds

\* ------------------------------------------------------------ the platform
AppGUID == "app-1"
ApplicationStates == {"STARTED", "STOPPED"}

\* getApplication: the answer to get-applications filtered by GUID
GetApplicationResponses(types) ==
    {[err |-> CCError, found |-> FALSE, app |-> NoApp], [err |-> NoErr, found |-> FALSE, app |-> NoApp]}
    \cup {[err |-> NoErr, found |-> TRUE,
           app |-> [GUID |-> AppGUID, State |-> st, LifecycleType |-> t]] :
             st \in ApplicationStates, t \in types}

\* get-droplet: a droplet built by the pipeline is staged, any other droplet is in
\* whatever state the platform holds it in
GetDropletResponses(guid) ==
    {[err |-> CCError, droplet |-> NoDroplet]}
    \cup {[err |-> NoErr, droplet |-> [GUID |-> guid, State |-> st]] :
            st \in IF guid \in staged THEN {"STAGED"} ELSE DropletStates}

\* the process listings: the number of processes returned, -1 for an error
ProcessListings == -1..MaxProcesses
DesiredInstances == 0..MaxInstances

\* the range loop over n processes starts: the first process is read, if there is one
EnterProcessLoop(n) ==
    /\ processes' = n
    /\ process' \in (IF n > 0 THEN DesiredInstances ELSE {0})
    /\ desiredInstances' = process'
    /\ polls' = 0
    /\ refreshed' = NoRefresh

\* ------------------------------------------------- the deployment resource
\* resourceDeploymentCreate is called for a new resource: its droplet_id is the ID
\* of the droplet resource created before it, or the ID of any other droplet
StartDeploymentCreate ==
    /\ \/ pc = "idle"
       \/ pc = "done" /\ op = "dropletCreate" /\ ~HasError(diags) /\ id # ""
    /\ \E dropletId \in {"droplet-x"} \cup (IF op = "dropletCreate" THEN {id} ELSE {}) :
          cfg' = [NoCfg EXCEPT !.droplet_id = dropletId]
    /\ ctxDone' = FALSE /\ UNCHANGED <<environment, envUpdates>> /\ op' = "deploymentCreate" /\ pc' = "c_getDroplet" /\ id' = "" /\ diags' = <<>>
    /\ seen' = NoSeen
    /\ UNCHANGED <<locals, desiredInstances, platform, createCalls, failedSteps, attemptObs, rollout>>

Deployment_GetDroplet ==
    /\ op = "deploymentCreate" /\ pc = "c_getDroplet"
    /\ \E resp \in GetDropletResponses(cfg.droplet_id) :
          /\ desiredDroplet' = resp.droplet
          /\ IF resp.err # NoErr
             THEN Return(diagFromClient("get-desired-droplet-for-deployment", <<>>, resp.err))
             ELSE pc' = "c_getApp" /\ diags' = diags
    /\ UNCHANGED <<op, ctxDone, environment, envUpdates, cfg, id, app, currentDroplet, currentDeployAttempt, deploymentGUID,
                   processes, process, desiredInstances, polls, refreshed, errs, platform, observed>>

Deployment_GetApplication ==
    /\ op = "deploymentCreate" /\ pc = "c_getApp"
    /\ \E resp \in GetApplicationResponses({"buildpack"}) :
          /\ app' = resp.app
          /\ IF resp.err # NoErr THEN Return(diagFromClient("get-applications", <<>>, resp.err)) /\ id' = id
             ELSE IF ~resp.found THEN Return(<<>>) /\ id' = ""
             ELSE pc' = "c_create" /\ diags' = diags /\ id' = id
          /\ seen' = IF resp.err = NoErr /\ ~resp.found
                     THEN [seen EXCEPT !.missing = "get-application"] ELSE seen
    /\ UNCHANGED <<op, ctxDone, environment, envUpdates, cfg, currentDroplet, desiredDroplet, currentDeployAttempt, deploymentGUID,
                   processes, process, desiredInstances, polls, refreshed, errs, platform,
                   createCalls, failedSteps, attemptObs, rollout>>

\* the guard of every `continue` of the two retry loops
AttemptsRemain_OffByOne(attempt, max) == attempt <= max

AttemptsRemain(attempt, max) == attempt < max

\* the warnings the platform may return with its next answer
WarningsLeft == IF seen.warnings < MaxWarnings THEN Warnings ELSE {<<>>}

\* createDeploymentFromDroplet returns nil and its diagnostics, ds appended, after a
\* failure at step
Deployment_AttemptFails(step, ds) ==
    /\ pc' = "c_attemptDone"
    /\ errs' = errs \o ds
    /\ failedSteps' = failedSteps \cup {step}

\* variant of Deployment_CreateDeployment: an attempt after the first polls the
\* deployment an earlier attempt created, if there is one
Deployment_CreateDeployment_Resumes ==
    /\ op = "deploymentCreate" /\ pc = "c_create"
    /\ currentDeployAttempt' = currentDeployAttempt + 1
    /\ createCalls' = createCalls + 1
    /\ attemptObs' = NoObs
    /\ \E err \in {NoErr, CCError}, warns \in WarningsLeft :
        LET ds == diagFromClient("create-deployment droplet:" \o desiredDroplet.GUID, warns, err)
        IN  /\ seen' = [seen EXCEPT !.warnings = @ + Len(warns)]
            /\ IF err # NoErr
               THEN /\ Deployment_AttemptFails("create-deployment", ds)
                    /\ UNCHANGED <<deployments, deploying, deploymentGUID, polls>>
               ELSE /\ deployments' = IF deployments > 0 THEN deployments ELSE 1
                    /\ deploying' = {deployments'}
                    /\ deploymentGUID' = deployments'
                    /\ pc' = "c_deployWait" /\ polls' = 0 /\ errs' = errs \o ds
                    /\ failedSteps' = failedSteps
    /\ UNCHANGED <<op, ctxDone, environment, envUpdates, cfg, id, diags, app, currentDroplet, desiredDroplet, processes, process, desiredInstances,
                   refreshed, packages, builds, staged, appDroplet, rollout>>

\* top of the loop of createDeploymentFromDropletWithRetry, and the create-deployment
\* call of createDeploymentFromDroplet
Deployment_CreateDeployment ==
    /\ op = "deploymentCreate" /\ pc = "c_create"
    /\ currentDeployAttempt' = currentDeployAttempt + 1
    /\ createCalls' = createCalls + 1
    /\ attemptObs' = NoObs
    /\ \E err \in {NoErr, CCError}, warns \in WarningsLeft :
        LET ds == diagFromClient("create-deployment droplet:" \o desiredDroplet.GUID, warns, err)
        IN  /\ seen' = [seen EXCEPT !.warnings = @ + Len(warns)]
            /\ IF err # NoErr
               THEN /\ Deployment_AttemptFails("create-deployment", ds)
                    /\ UNCHANGED <<deployments, deploying, deploymentGUID, polls>>
               ELSE /\ deployments' = deployments + 1
                    /\ deploying' = {deployments + 1}
                    /\ deploymentGUID' = deployments + 1
                    /\ pc' = "c_deployWait" /\ polls' = 0 /\ errs' = errs \o ds
                    /\ failedSteps' = failedSteps
    /\ UNCHANGED <<op, ctxDone, environment, envUpdates, cfg, id, diags, app, currentDroplet, desiredDroplet, processes, process, desiredInstances,
                   refreshed, packages, builds, staged, appDroplet, rollout>>

\* how an attempt that failed in its deployment wait is counted
DeployWaitStep(r) == IF r.label = "FAILED" THEN "deployment failed" ELSE "other"

\* what the attempt saw of its deployment wait when the wait ended in an error on the
\* refresh result r: the refresh gave no error only if the wait's time was up
DeployWaitObserved(r) ==
    IF r.err = NoErr THEN "timeout"
    ELSE IF r.err = ContextCanceled THEN "cancelled"
    ELSE IF r.err = ResourceNotFoundError THEN "not found"
    ELSE DeployWaitStep(r)

\* one poll of the deployment wait of createDeploymentFromDroplet
Deployment_DeployPoll ==
    /\ op = "deploymentCreate" /\ pc = "c_deployWait"
    /\ \E resp \in Polled(GetDeploymentResponses) :
          /\ deploying' = PlatformDeploying(resp)
          /\ LET r == deploymentStateFunc(resp)
                 w == WaitForState(r, deploymentPendingStates, deploymentSuccessStates, polls)
             IN  CASE w.kind = "pending" ->
                        /\ polls' = polls + 1
                        /\ UNCHANGED <<pc, errs, failedSteps, attemptObs, appDroplet>>
                   [] w.kind = "target" ->
                        /\ pc' = "c_discover" /\ polls' = 0
                        /\ attemptObs' = [attemptObs EXCEPT !.deployment = "deployed",
                                                            !.status = resp.StatusValue,
                                                            !.reason = resp.StatusReason]
                        /\ appDroplet' = desiredDroplet.GUID
                        /\ UNCHANGED <<errs, failedSteps>>
                   [] w.kind = "error" ->
                        /\ Deployment_AttemptFails(DeployWaitStep(r), <<FromErr(w.err)>>)
                        /\ polls' = 0 /\ appDroplet' = appDroplet
                        /\ attemptObs' = [attemptObs EXCEPT !.deployment = DeployWaitObserved(r),
                                                            !.status = resp.StatusValue,
                                                            !.reason = resp.StatusReason]
    /\ UNCHANGED <<op, ctxDone, environment, envUpdates, cfg, id, diags, app, currentDroplet, desiredDroplet, currentDeployAttempt,
                   deploymentGUID, processes, process, desiredInstances, refreshed, packages, builds, staged,
                   deployments, createCalls, rollout, seen>>

Deployment_GetNewProcesses ==
    /\ op = "deploymentCreate" /\ pc = "c_discover"
    /\ \E n \in ProcessListings :
          IF n < 0
          THEN /\ Deployment_AttemptFails("other",
                      diagFromClient("get-new-application-processes", <<>>, CCError))
               /\ UNCHANGED <<processes, process, desiredInstances, polls, refreshed, attemptObs>>
          ELSE /\ EnterProcessLoop(n)
               /\ attemptObs' = [attemptObs EXCEPT !.processes = n]
               /\ pc' = IF n > 0 THEN "c_stabilize" ELSE "c_attemptDone"
               /\ UNCHANGED <<errs, failedSteps>>
    /\ UNCHANGED <<op, ctxDone, environment, envUpdates, cfg, id, diags, app, currentDroplet, desiredDroplet, currentDeployAttempt,
                   deploymentGUID, platform, createCalls, rollout, seen>>

\* the refresh function of a stability wait runs: get-process-instances and the verdict
RefreshProcessInstances ==
    /\ pc = "c_stabilize" /\ ~refreshed.fresh
    /\ \E resp \in Polled(GetProcessInstancesResponses) :
          refreshed' = processInstanceStateFunc(resp, process)
    /\ UNCHANGED <<op, ctxDone, environment, envUpdates, pc, cfg, id, diags, app, currentDroplet, desiredDroplet,
                   currentDeployAttempt, deploymentGUID, processes, process, desiredInstances, polls, errs,
                   platform, observed>>

\* the stability wait of createDeploymentFromDroplet sees the refresh result r
Deployment_StabilizeWaitOn(r) ==
    /\ op = "deploymentCreate" /\ pc = "c_stabilize"
    /\ LET w == WaitForState(r, processInstancePendingStates,
                             processInstanceSuccessStates, polls)
       IN  CASE w.kind = "pending" ->
                  /\ polls' = polls + 1 /\ refreshed' = NoRefresh
                  /\ UNCHANGED <<pc, processes, process, desiredInstances, errs, failedSteps, attemptObs>>
             [] w.kind = "target" ->
                  /\ EnterProcessLoop(processes - 1)
                  /\ attemptObs' = [attemptObs EXCEPT !.stable = @ + 1]
                  /\ pc' = IF processes > 1 THEN "c_stabilize" ELSE "c_attemptDone"
                  /\ UNCHANGED <<errs, failedSteps>>
             [] w.kind = "error" ->
                  /\ Deployment_AttemptFails("other", <<FromErr(w.err)>>)
                  /\ attemptObs' = [attemptObs EXCEPT !.failed = @ + 1]
                  /\ polls' = 0 /\ refreshed' = NoRefresh
                  /\ UNCHANGED <<processes, process, desiredInstances>>
    /\ UNCHANGED <<op, ctxDone, environment, envUpdates, cfg, id, diags, app, currentDroplet, desiredDroplet, currentDeployAttempt,
                   deploymentGUID, platform, createCalls, rollout, seen>>

\* one poll cycle of that wait: the refresh and what the wait makes of it
Deployment_StabilizePoll ==
    /\ ~refreshed.fresh
    /\ \E resp \in Polled(GetProcessInstancesResponses) :
          Deployment_StabilizeWaitOn(processInstanceStateFunc(resp, process))

\* the same poll cycle in two steps, the refresh result in between
Deployment_StabilizeWait ==
    /\ refreshed.fresh
    /\ Deployment_StabilizeWaitOn(refreshed)

\* variant of createDeploymentFromDropletWithRetry: the diagnostics of every failed
\* attempt are kept
createDeploymentFromDropletWithRetry_KeepsAll ==
    /\ op = "deploymentCreate" /\ pc = "c_attemptDone"
    /\ IF HasError(errs)
       THEN IF AttemptsRemain(currentDeployAttempt, MaxDeploymentAttempts)
            THEN pc' = "c_create" /\ diags' = diags \o errs /\ UNCHANGED <<id, rollout>>
            ELSE Return(errs) /\ rollout' = "error" /\ id' = id
       ELSE /\ pc' = "c_getAppState" /\ rollout' = "ok"
            /\ id' = "deployment-" \o ToString(deploymentGUID)
            /\ diags' = diags
    /\ errs' = <<>>
    /\ UNCHANGED <<op, ctxDone, environment, envUpdates, cfg, app, currentDroplet, desiredDroplet, currentDeployAttempt,
                   deploymentGUID, processes, process, desiredInstances, polls, refreshed, platform,
                   createCalls, failedSteps, attemptObs, seen>>

\* createDeploymentFromDropletWithRetry sees the result of the attempt, and
\* resourceDeploymentCreate the result of the retry loop
createDeploymentFromDropletWithRetry ==
    /\ op = "deploymentCreate" /\ pc = "c_attemptDone"
    /\ IF HasError(errs)
       THEN IF AttemptsRemain(currentDeployAttempt, MaxDeploymentAttempts)
            THEN pc' = "c_create" /\ UNCHANGED <<diags, id, rollout>>
            ELSE Return(errs) /\ rollout' = "error" /\ id' = id
       ELSE /\ pc' = "c_getAppState" /\ rollout' = "ok"
            /\ id' = "deployment-" \o ToString(deploymentGUID)
            /\ diags' = diags
    /\ errs' = <<>>
    /\ UNCHANGED <<op, ctxDone, environment, envUpdates, cfg, app, currentDroplet, desiredDroplet, currentDeployAttempt,
                   deploymentGUID, processes, process, desiredInstances, polls, refreshed, platform,
                   createCalls, failedSteps, attemptObs, seen>>

\* variant of HasDropletToRun: the start is not guarded
HasDropletToRun_Unguarded(droplet) == TRUE

\* the guard of the start-application request: the desired droplet has an identifier
HasDropletToRun(droplet) == droplet.GUID # ""

\* the second application lookup of resourceDeploymentCreate; the application record
\* is nil when the application is missing, and its GUID is read for the diagnostic
Deployment_GetApplicationState ==
    /\ op = "deploymentCreate" /\ pc = "c_getAppState"
    /\ \E resp \in GetApplicationResponses({"buildpack"}) :
          /\ app' = resp.app
          /\ IF resp.err # NoErr THEN Return(diagFromClient("get-applications", <<>>, resp.err))
             ELSE IF ~resp.found THEN pc' = "panic" /\ diags' = diags
             ELSE IF "STARTED" # resp.app.State /\ HasDropletToRun(desiredDroplet)
                  THEN pc' = "c_start" /\ diags' = diags
                  ELSE pc' = "c_read" /\ diags' = diags
          /\ seen' = IF resp.err # NoErr THEN seen
                     ELSE IF ~resp.found
                     THEN [seen EXCEPT !.missing = "get-application-state-during-deployment"]
                     ELSE [seen EXCEPT !.state = resp.app.State]
    /\ UNCHANGED <<op, ctxDone, environment, envUpdates, cfg, id, currentDroplet, desiredDroplet, currentDeployAttempt,
                   deploymentGUID, processes, process, desiredInstances, polls, refreshed, errs, platform,
                   createCalls, failedSteps, attemptObs, rollout>>

Deployment_StartApplication ==
    /\ op = "deploymentCreate" /\ pc = "c_start"
    /\ \E err \in {NoErr, CCError} :
          IF err # NoErr THEN Return(diagFromClient("update-application", <<>>, err))
          ELSE pc' = "c_getProcs" /\ diags' = diags
    /\ seen' = [seen EXCEPT !.start = @ + 1]
    /\ UNCHANGED <<op, ctxDone, environment, envUpdates, cfg, id, locals, desiredInstances, platform, createCalls, failedSteps, attemptObs, rollout>>

\* get-application-processes is asked for d.Id()
Deployment_GetApplicationProcesses ==
    /\ op = "deploymentCreate" /\ pc = "c_getProcs"
    /\ \E n \in ProcessListings :
          IF n < 0
          THEN /\ Return(diagFromClient("get-application-processes", <<>>, CCError))
               /\ seen' = [seen EXCEPT !.listed = id]
               /\ UNCHANGED <<processes, process, desiredInstances, polls, refreshed>>
          ELSE /\ EnterProcessLoop(n)
               /\ pc' = IF n > 0 THEN "c_startStabilize" ELSE "c_read"
               /\ diags' = diags
               /\ seen' = [seen EXCEPT !.listed = id]
    /\ UNCHANGED <<op, ctxDone, environment, envUpdates, cfg, id, app, currentDroplet, desiredDroplet, currentDeployAttempt,
                   deploymentGUID, errs, platform,
                   createCalls, failedSteps, attemptObs, rollout>>

\* one poll cycle of the stability wait after the start; its error replaces the
\* diagnostics
Deployment_StartStabilizePoll ==
    /\ op = "deploymentCreate" /\ pc = "c_startStabilize"
    /\ \E resp \in Polled(GetProcessInstancesResponses) :
        LET w == WaitForState(processInstanceStateFunc(resp, process),
                              processInstancePendingStates, processInstanceSuccessStates, polls)
        IN  CASE w.kind = "pending" ->
                  /\ polls' = polls + 1
                  /\ UNCHANGED <<pc, diags, processes, process, desiredInstances, refreshed, seen>>
              [] w.kind = "target" ->
                  /\ EnterProcessLoop(processes - 1)
                  /\ pc' = IF processes > 1 THEN "c_startStabilize" ELSE "c_read"
                  /\ diags' = diags
                  /\ seen' = seen
              [] w.kind = "error" ->
                  /\ pc' = "done" /\ diags' = <<FromErr(w.err)>>
                  /\ polls' = 0
                  /\ UNCHANGED <<processes, process, desiredInstances, refreshed, seen>>
    /\ UNCHANGED <<op, ctxDone, environment, envUpdates, cfg, id, app, currentDroplet, desiredDroplet, currentDeployAttempt,
                   deploymentGUID, errs, platform,
                   createCalls, failedSteps, attemptObs, rollout>>

\* resourceDeploymentRead: the deployments of the application are listed, and the ID
\* is cleared if the deployment is not among them
resourceDeploymentRead ==
    /\ op = "deploymentCreate" /\ pc = "c_read"
    /\ \E resp \in {"error", "listed", "missing"} :
          CASE resp = "error" ->
                  Return(diagFromClient("get-new-application-processes", <<>>, CCError)) /\ id' = id
            [] resp = "listed" -> Return(<<>>) /\ id' = id
            [] resp = "missing" -> Return(<<>>) /\ id' = ""
    /\ UNCHANGED <<op, ctxDone, environment, envUpdates, cfg, locals, desiredInstances, platform, observed>>

\* ------------------------------------------------ the package/build pipeline
\* createBuildpackDroplet and createDockerDroplet, called by resourceDropletCreate and
\* by the update path of the app resource
BuildpackChangeKeys == {"buildpacks", "source_code_path", "source_code_hash", "stack", "environment"}
DockerChangeKeys == {"docker_image", "docker_username", "docker_password", "environment"}

packagePendingStates == {"AWAITING_UPLOAD", "COPYING", "PROCESSING_UPLOAD"}
packageSuccessStates == {"READY"}
buildPendingStates == {"STAGING"}
buildSuccessStates == {"STAGED"}

GetPackageResponses ==
    {[err |-> CCError, State |-> ""], [err |-> ResourceNotFoundError, State |-> ""]}
    \cup {[err |-> NoErr, State |-> st] : st \in {"PROCESSING_UPLOAD", "READY", "FAILED"}}
GetBuildResponses ==
    {[err |-> CCError, State |-> ""], [err |-> ResourceNotFoundError, State |-> ""]}
    \cup {[err |-> NoErr, State |-> st] : st \in {"STAGING", "STAGED", "FAILED"}}

packageStateFunc(resp) == [nil |-> FALSE, label |-> resp.State, err |-> resp.err]
buildStateFunc(resp) == [nil |-> FALSE, label |-> resp.State, err |-> resp.err]

\* the file system: os.Open and File.Stat of the archive
Openable(path) == path \in {"app.zip", "nostat.zip"}
Statable(path) == path = "app.zip"

\* the lifecycle type the pipeline runs for
PipelineType == IF op = "appUpdate" THEN app.LifecycleType ELSE cfg.type

\* the droplet of build number b
DropletOfBuild(b) == "droplet-" \o ToString(b)

\* variant of AfterStaging: the staged droplet is never made the current one
AfterStaging_SkipsRollout(current, desired) == "u_getAppState"

\* variant of AfterStaging: the desired run state is not looked at
AfterStaging_AlwaysDeploys(current, desired) ==
    IF desired.GUID # "" /\ desired.GUID # current
    THEN "u_create"
    ELSE "u_getAppState"

\* resourceAppUpdate after the lifecycle switch: roll out, set the droplet, or go on
\* to the run state
AfterStaging(current, desired) ==
    IF desired.GUID # "" /\ desired.GUID # current
    THEN IF cfg.state = "STARTED" THEN "u_create" ELSE "u_setDroplet"
    ELSE "u_getAppState"

\* a remote call of the pipeline has returned: its name and how it ended ("ok",
\* "error", or for the last poll of a wait the state label it saw or "timeout")
Called(call, result) ==
    seen' = [seen EXCEPT !.trace = Append(@, [call |-> call, result |-> result])]

\* how the poll of a wait that answered w on the refresh result r is recorded
PollResult(r, w, pending) ==
    IF r.err # NoErr THEN "error"
    ELSE IF w.kind = "error" /\ r.label \in pending THEN "timeout"
    ELSE r.label

\* the pipeline's caller takes the droplet it returned
PipelineReturns(droplet) ==
    IF op = "appUpdate"
    THEN /\ desiredDroplet' = droplet
         /\ pc' = AfterStaging(currentDroplet, droplet)
         /\ id' = id
    ELSE /\ desiredDroplet' = desiredDroplet
         /\ pc' = "d_read"
         /\ id' = droplet.GUID

\* the package that create-package is called with
Package ==
    IF PipelineType = "docker" THEN [Type |-> "docker", DockerImage |-> cfg.docker_image]
    ELSE [Type |-> "bits", DockerImage |-> ""]

\* create-package, and for an archive the checks of the source path that follow it
Pipeline_CreatePackage ==
    /\ pc = "p_createPackage"
    /\ \E err \in {NoErr, CCError} :
          IF err # NoErr
          THEN /\ Return(diagFromClient(IF PipelineType = "docker" THEN "create-docker-package"
                                         ELSE "create-bits-package", <<>>, err))
               /\ packages' = packages
               /\ Called("create-package", "error")
          ELSE /\ packages' = packages + 1
               /\ seen' = [seen EXCEPT
                              !.trace = Append(@, [call |-> "create-package", result |-> "ok"]),
                              !.package = Package]
               /\ IF PipelineType = "docker" THEN pc' = "p_createBuild" /\ diags' = diags
                  ELSE IF cfg.source_code_path = ""
                  THEN Return(<<ErrorDiag("source_code_path required for lifecycle type buildpack",
                                          "set the source_code_path")>>)
                  ELSE IF ~Openable(cfg.source_code_path)
                  THEN Return(<<ErrorDiag("failed to read zip file for source_code_path: "
                                            \o cfg.source_code_path, "open")>>)
                  ELSE IF ~Statable(cfg.source_code_path)
                  THEN Return(<<ErrorDiag("failed to stat zip file for source_code_path: "
                                            \o cfg.source_code_path, "stat")>>)
                  ELSE pc' = "p_upload" /\ diags' = diags
    /\ UNCHANGED <<op, ctxDone, environment, envUpdates, cfg, id, locals, desiredInstances, builds, staged, deployments, deploying, appDroplet,
                   createCalls, failedSteps, attemptObs, rollout>>

\* variant of Pipeline_UploadBits: the build is created without the package wait
Pipeline_UploadBits_NoWait ==
    /\ pc = "p_upload"
    /\ \E err \in {NoErr, CCError} :
          /\ IF err # NoErr
             THEN Return(diagFromClient("upload-bits", <<>>, err)) /\ polls' = polls
             ELSE pc' = "p_createBuild" /\ diags' = diags /\ polls' = 0
          /\ Called("upload-bits", IF err # NoErr THEN "error" ELSE "ok")
    /\ UNCHANGED <<op, ctxDone, environment, envUpdates, cfg, id, app, currentDroplet, desiredDroplet, currentDeployAttempt,
                   deploymentGUID, processes, process, desiredInstances, refreshed, errs, platform,
                   createCalls, failedSteps, attemptObs, rollout>>

Pipeline_UploadBits ==
    /\ pc = "p_upload"
    /\ \E err \in {NoErr, CCError} :
          /\ IF err # NoErr
             THEN Return(diagFromClient("upload-bits", <<>>, err)) /\ polls' = polls
             ELSE pc' = "p_packageWait" /\ diags' = diags /\ polls' = 0
          /\ Called("upload-bits", IF err # NoErr THEN "error" ELSE "ok")
    /\ UNCHANGED <<op, ctxDone, environment, envUpdates, cfg, id, app, currentDroplet, desiredDroplet, currentDeployAttempt,
                   deploymentGUID, processes, process, desiredInstances, refreshed, errs, platform,
                   createCalls, failedSteps, attemptObs, rollout>>

Pipeline_PackagePoll ==
    /\ pc = "p_packageWait"
    /\ \E resp \in Polled(GetPackageResponses) :
        LET w == WaitForState(packageStateFunc(resp), packagePendingStates,
                              packageSuccessStates, polls)
            result == PollResult(packageStateFunc(resp), w, packagePendingStates)
        IN  CASE w.kind = "pending" -> polls' = polls + 1 /\ UNCHANGED <<pc, diags, seen>>
              [] w.kind = "target" ->
                    /\ pc' = "p_createBuild" /\ polls' = 0 /\ diags' = diags
                    /\ Called("get-package", result)
              [] w.kind = "error" ->
                    /\ Return(<<FromErr(w.err)>>) /\ polls' = 0
                    /\ Called("get-package", result)
    /\ UNCHANGED <<op, ctxDone, environment, envUpdates, cfg, id, app, currentDroplet, desiredDroplet, currentDeployAttempt,
                   deploymentGUID, processes, process, desiredInstances, refreshed, errs, platform,
                   createCalls, failedSteps, attemptObs, rollout>>

\* variant of Pipeline_CreateBuild: a failed create-build call is made a second time
Pipeline_CreateBuild_Retries ==
    /\ pc = "p_createBuild"
    /\ \E err \in {NoErr, CCError} :
          IF err # NoErr
          THEN /\ IF \E k \in 1..Len(seen.trace) : seen.trace[k].call = "create-build"
                  THEN Return(diagFromClient(IF PipelineType = "docker"
                                             THEN "create-docker-build"
                                             ELSE "create-build", <<>>, err))
                  ELSE pc' = pc /\ diags' = diags
               /\ UNCHANGED <<builds, polls>>
               /\ Called("create-build", "error")
          ELSE /\ builds' = builds + 1 /\ pc' = "p_buildWait" /\ diags' = diags /\ polls' = 0
               /\ Called("create-build", "ok")
    /\ UNCHANGED <<op, ctxDone, environment, envUpdates, cfg, id, app, currentDroplet, desiredDroplet, currentDeployAttempt,
                   deploymentGUID, processes, process, desiredInstances, refreshed, errs, packages, staged,
                   deployments, deploying, appDroplet, createCalls, failedSteps, attemptObs, rollout>>

\* variant of Pipeline_CreateBuild: the build is read without the build wait
Pipeline_CreateBuild_NoWait ==
    /\ pc = "p_createBuild"
    /\ \E err \in {NoErr, CCError} :
          IF err # NoErr
          THEN /\ Return(diagFromClient(IF PipelineType = "docker" THEN "create-docker-build"
                                         ELSE "create-build", <<>>, err))
               /\ UNCHANGED <<builds, polls>>
               /\ Called("create-build", "error")
          ELSE /\ builds' = builds + 1 /\ pc' = "p_getBuild" /\ diags' = diags /\ polls' = 0
               /\ Called("create-build", "ok")
    /\ UNCHANGED <<op, ctxDone, environment, envUpdates, cfg, id, app, currentDroplet, desiredDroplet, currentDeployAttempt,
                   deploymentGUID, processes, process, desiredInstances, refreshed, errs, packages, staged,
                   deployments, deploying, appDroplet, createCalls, failedSteps, attemptObs, rollout>>

Pipeline_CreateBuild ==
    /\ pc = "p_createBuild"
    /\ \E err \in {NoErr, CCError} :
          IF err # NoErr
          THEN /\ Return(diagFromClient(IF PipelineType = "docker" THEN "create-docker-build"
                                         ELSE "create-build", <<>>, err))
               /\ UNCHANGED <<builds, polls>>
               /\ Called("create-build", "error")
          ELSE /\ builds' = builds + 1 /\ pc' = "p_buildWait" /\ diags' = diags /\ polls' = 0
               /\ Called("create-build", "ok")
    /\ UNCHANGED <<op, ctxDone, environment, envUpdates, cfg, id, app, currentDroplet, desiredDroplet, currentDeployAttempt,
                   deploymentGUID, processes, process, desiredInstances, refreshed, errs, packages, staged,
                   deployments, deploying, appDroplet, createCalls, failedSteps, attemptObs, rollout>>

\* variant of the build wait: the pipeline goes on after a failed wait
Pipeline_BuildPoll_GoesOn ==
    /\ pc = "p_buildWait"
    /\ \E resp \in Polled(GetBuildResponses) :
        LET w == WaitForState(buildStateFunc(resp), buildPendingStates,
                              buildSuccessStates, polls)
            result == PollResult(buildStateFunc(resp), w, buildPendingStates)
        IN  CASE w.kind = "pending" ->
                    polls' = polls + 1 /\ UNCHANGED <<pc, diags, staged, seen>>
              [] w.kind = "target" ->
                    /\ pc' = "p_getBuild" /\ polls' = 0 /\ diags' = diags
                    /\ staged' = staged \cup {DropletOfBuild(builds)}
                    /\ Called("get-build-state", result)
              [] w.kind = "error" ->
                    /\ pc' = "p_getBuild" /\ diags' = diags \o <<FromErr(w.err)>>
                    /\ polls' = 0 /\ staged' = staged
                    /\ Called("get-build-state", result)
    /\ UNCHANGED <<op, ctxDone, environment, envUpdates, cfg, id, app, currentDroplet, desiredDroplet, currentDeployAttempt,
                   deploymentGUID, processes, process, desiredInstances, refreshed, errs, packages, builds,
                   deployments, deploying, appDroplet, createCalls, failedSteps, attemptObs, rollout>>

\* the platform sets the droplet of a build when the build is staged
Pipeline_BuildPoll ==
    /\ pc = "p_buildWait"
    /\ \E resp \in Polled(GetBuildResponses) :
        LET w == WaitForState(buildStateFunc(resp), buildPendingStates,
                              buildSuccessStates, polls)
            result == PollResult(buildStateFunc(resp), w, buildPendingStates)
        IN  CASE w.kind = "pending" ->
                    polls' = polls + 1 /\ UNCHANGED <<pc, diags, staged, seen>>
              [] w.kind = "target" ->
                    /\ pc' = "p_getBuild" /\ polls' = 0 /\ diags' = diags
                    /\ staged' = staged \cup {DropletOfBuild(builds)}
                    /\ Called("get-build-state", result)
              [] w.kind = "error" ->
                    /\ Return(<<FromErr(w.err)>>) /\ polls' = 0 /\ staged' = staged
                    /\ Called("get-build-state", result)
    /\ UNCHANGED <<op, ctxDone, environment, envUpdates, cfg, id, app, currentDroplet, desiredDroplet, currentDeployAttempt,
                   deploymentGUID, processes, process, desiredInstances, refreshed, errs, packages, builds,
                   deployments, deploying, appDroplet, createCalls, failedSteps, attemptObs, rollout>>

Pipeline_GetBuild ==
    /\ pc = "p_getBuild"
    /\ \E err \in {NoErr, CCError} :
          /\ IF err # NoErr
             THEN Return(diagFromClient(IF PipelineType = "docker" THEN "get-docker-build"
                                         ELSE "get-build", <<>>, err))
             ELSE pc' = "p_getDroplet" /\ diags' = diags
          /\ Called("get-build", IF err # NoErr THEN "error" ELSE "ok")
    /\ UNCHANGED <<op, ctxDone, environment, envUpdates, cfg, id, locals, desiredInstances, platform, createCalls, failedSteps, attemptObs, rollout>>

Pipeline_GetDroplet ==
    /\ pc = "p_getDroplet"
    /\ \E resp \in GetDropletResponses(DropletOfBuild(builds)) :
          IF resp.err # NoErr
          THEN /\ Return(diagFromClient(IF PipelineType = "docker" THEN "get-built-docker-droplet"
                                         ELSE "get-built-droplet", <<>>, resp.err))
               /\ UNCHANGED <<id, desiredDroplet>>
               /\ Called("get-droplet", "error")
          ELSE /\ PipelineReturns(resp.droplet) /\ diags' = diags
               /\ Called("get-droplet", resp.droplet.GUID)
    /\ UNCHANGED <<op, ctxDone, environment, envUpdates, cfg, app, currentDroplet, currentDeployAttempt, deploymentGUID,
                   processes, process, desiredInstances, polls, refreshed, errs, platform,
                   createCalls, failedSteps, attemptObs, rollout>>

\* ---------------------------------------------------- the droplet resource
DropletConfigs ==
    {[NoCfg EXCEPT !.type = t, !.source_code_path = sp] :
        t \in {"buildpack"}, sp \in {"", "missing.zip", "nostat.zip", "app.zip"}}
    \cup {[NoCfg EXCEPT !.type = t, !.docker_image = "image:1"] : t \in {"docker", "kpack"}}

StartDropletCreate ==
    /\ pc = "idle"
    /\ cfg' \in DropletConfigs
    /\ ctxDone' = FALSE /\ UNCHANGED <<environment, envUpdates>> /\ op' = "dropletCreate" /\ pc' = "d_updateApp"
    /\ UNCHANGED <<id, diags, locals, desiredInstances, platform, observed>>

\* resourceDropletCreate: the lifecycle type is set on the application, then the
\* pipeline of that type runs
Droplet_UpdateApplication ==
    /\ op = "dropletCreate" /\ pc = "d_updateApp"
    /\ \E err \in {NoErr, CCError} :
          IF err # NoErr THEN Return(diagFromClient("update-app-lifeycle-type", <<>>, err))
          ELSE IF cfg.type \in {"buildpack", "docker"}
          THEN pc' = "p_createPackage" /\ diags' = diags
          ELSE Return(<<ErrorDiag("lifecycle type " \o cfg.type \o " is not support", "")>>)
    /\ UNCHANGED <<op, ctxDone, environment, envUpdates, cfg, id, locals, desiredInstances, platform, observed>>

\* resourceDropletRead: the ID is cleared if the droplet is not listed
resourceDropletRead ==
    /\ op = "dropletCreate" /\ pc = "d_read"
    /\ \E resp \in {"error", "listed", "missing"} :
          /\ CASE resp = "error" ->
                     Return(diagFromClient("get-droplet-for-read", <<>>, CCError)) /\ id' = id
               [] resp = "listed" -> Return(<<>>) /\ id' = id
               [] resp = "missing" -> Return(<<>>) /\ id' = ""
          /\ seen' = IF resp = "missing" THEN [seen EXCEPT !.missing = "get-droplet-for-read"]
                     ELSE seen
    /\ UNCHANGED <<op, ctxDone, environment, envUpdates, cfg, locals, desiredInstances, platform, createCalls, failedSteps, attemptObs, rollout>>

\* variant of resourceDropletDelete: the droplet is removed from the platform
resourceDropletDelete_Removes ==
    /\ \/ pc = "idle" /\ id' = "droplet-x"
       \/ pc = "done" /\ op = "dropletCreate" /\ ~HasError(diags) /\ id # "" /\ id' = id
    /\ ctxDone' = FALSE /\ UNCHANGED <<environment, envUpdates>> /\ op' = "dropletDelete" /\ pc' = "done" /\ diags' = <<>>
    /\ staged' = staged \ {id}
    /\ UNCHANGED <<cfg, locals, desiredInstances, packages, builds, deployments, deploying, appDroplet, observed>>

\* resourceDropletDelete, called for a droplet resource that exists (one created before
\* it, or any other): nothing is called, the empty diagnostics are returned
resourceDropletDelete ==
    /\ \/ pc = "idle" /\ id' = "droplet-x"
       \/ pc = "done" /\ op = "dropletCreate" /\ ~HasError(diags) /\ id # "" /\ id' = id
    /\ ctxDone' = FALSE /\ UNCHANGED <<environment, envUpdates>> /\ op' = "dropletDelete" /\ pc' = "done" /\ diags' = <<>>
    /\ UNCHANGED <<cfg, locals, desiredInstances, platform, observed>>

\* ------------------------------------- the update path of the app resource
\* the (source_code_path, docker_image) pairs and the sets of changed keys of the
\* configurations
ConfiguredSources == {<<"", "">>, <<"app.zip", "">>, <<"missing.zip", "">>, <<"", "image:1">>}
ChangedKeys == {{}, {"environment"}, {"source_code_hash"}, {"docker_image"}, {"instances"}}

AppConfigs ==
    {[NoCfg EXCEPT !.state = st, !.source_code_path = src[1], !.docker_image = src[2],
                   !.changed = ch] :
        st \in ApplicationStates, src \in ConfiguredSources, ch \in ChangedKeys}

\* the current droplet of the application before the update: none, or an earlier one
DropletsBefore == {"", "droplet-0"}

StartAppUpdate ==
    /\ pc = "idle"
    /\ cfg' \in AppConfigs
    /\ ctxDone' = FALSE /\ UNCHANGED <<environment, envUpdates>> /\ op' = "appUpdate" /\ pc' = "u_getApp" /\ id' = AppGUID
    /\ appDroplet' \in DropletsBefore
    /\ UNCHANGED <<diags, locals, desiredInstances, packages, builds, staged, deployments, deploying, observed>>

\* getApplication(s, d) of the app resource: a missing application is a warning, the
\* ID is cleared and nil is returned; the caller then reads a field of the nil record
AppUpdate_GetApplication ==
    /\ op = "appUpdate" /\ pc = "u_getApp"
    /\ \E resp \in GetApplicationResponses({"buildpack", "docker", "kpack"}) :
          /\ app' = resp.app
          /\ IF resp.err # NoErr
             THEN Return(diagFromClient("get-applications", <<>>, resp.err)) /\ id' = id
             ELSE IF ~resp.found
             THEN /\ pc' = "panic" /\ id' = ""
                  /\ diags' = Append(diags, WarningDiag("app not found, removing from state",
                                                        "get-applications"))
             ELSE pc' = "u_manifest" /\ diags' = diags /\ id' = id
          /\ seen' = IF resp.err = NoErr /\ ~resp.found
                     THEN [seen EXCEPT !.missing = "get-applications"] ELSE seen
    /\ UNCHANGED <<op, ctxDone, environment, envUpdates, cfg, currentDroplet, desiredDroplet, currentDeployAttempt, deploymentGUID,
                   processes, process, desiredInstances, polls, refreshed, errs, platform,
                   createCalls, failedSteps, attemptObs, rollout>>

\* applyAppManifest: the manifest is applied and its job awaited
AppUpdate_ApplyManifest ==
    /\ op = "appUpdate" /\ pc = "u_manifest"
    /\ \E outcome \in {"ok", "apply", "job"} :
          CASE outcome = "ok" -> pc' = "u_currentDroplet" /\ diags' = diags
            [] outcome = "apply" -> Return(diagFromClient("apply-manifest", <<>>, CCError))
            [] outcome = "job" -> Return(<<FromErr(CCError)>>)
    /\ UNCHANGED <<op, ctxDone, environment, envUpdates, cfg, id, locals, desiredInstances, platform, observed>>

\* variant of LifecycleSwitch: any changed key of the configuration stages
LifecycleSwitch_AnyChange(current, desired) ==
    CASE app.LifecycleType = "buildpack" ->
            IF cfg.source_code_path # "" /\ cfg.changed # {}
            THEN "p_createPackage" ELSE AfterStaging(current, desired)
      [] app.LifecycleType = "docker" ->
            IF cfg.docker_image # "" /\ cfg.changed # {}
            THEN "p_createPackage" ELSE AfterStaging(current, desired)
      [] OTHER -> "unsupported"

\* variant of LifecycleSwitch: a changed key is enough, configured source or not
LifecycleSwitch_ChangeOnly(current, desired) ==
    CASE app.LifecycleType = "buildpack" ->
            IF cfg.changed \cap BuildpackChangeKeys # {}
            THEN "p_createPackage" ELSE AfterStaging(current, desired)
      [] app.LifecycleType = "docker" ->
            IF cfg.changed \cap DockerChangeKeys # {}
            THEN "p_createPackage" ELSE AfterStaging(current, desired)
      [] OTHER -> "unsupported"

\* the lifecycle switch of resourceAppUpdate: the position the update goes on at
LifecycleSwitch(current, desired) ==
    CASE app.LifecycleType = "buildpack" ->
            IF cfg.source_code_path # "" /\ cfg.changed \cap BuildpackChangeKeys # {}
            THEN "p_createPackage" ELSE AfterStaging(current, desired)
      [] app.LifecycleType = "docker" ->
            IF cfg.docker_image # "" /\ cfg.changed \cap DockerChangeKeys # {}
            THEN "p_createPackage" ELSE AfterStaging(current, desired)
      [] OTHER -> "unsupported"

GoOnAt(position) ==
    IF position = "unsupported"
    THEN Return(<<ErrorDiag("lifecycle type " \o app.LifecycleType \o " is not support", "")>>)
    ELSE pc' = position /\ diags' = diags

\* get-current-droplet, its error ignored
AppUpdate_GetCurrentDroplet ==
    /\ op = "appUpdate" /\ pc = "u_currentDroplet"
    /\ \E droplet \in {NoDroplet} \cup {[GUID |-> g, State |-> "STAGED"] :
                                            g \in {appDroplet} \ {""}} :
          /\ currentDroplet' = droplet.GUID
          /\ desiredDroplet' = droplet
          /\ IF "environment" \in cfg.changed
             THEN pc' = "u_environment" /\ diags' = diags
             ELSE GoOnAt(LifecycleSwitch(droplet.GUID, droplet))
    /\ UNCHANGED <<op, ctxDone, environment, envUpdates, cfg, id, app, currentDeployAttempt, deploymentGUID,
                   processes, process, desiredInstances, polls, refreshed, errs, platform, observed>>

\* ------------------------------------------------------ applyAppEnvironment
\* variant of desiredEnv: the keys of the current environment are left out
desiredEnv_ConfiguredOnly(currentEnv, configured) ==
    [k \in DOMAIN configured |-> [Value |-> configured[k], IsSet |-> TRUE]]

\* the update that applyAppEnvironment builds: every key of the current environment
\* unset, then every key of the configuration set to its value
desiredEnv(currentEnv, configured) ==
    [k \in DOMAIN currentEnv \cup DOMAIN configured |->
        IF k \in DOMAIN configured THEN [Value |-> configured[k], IsSet |-> TRUE]
        ELSE [Value |-> "", IsSet |-> FALSE]]

\* the platform's answer to an update of the environment variables: a key that is set
\* takes the value sent, a key that is unset (sent as null) is removed, any other key
\* stays as it is
UpdateApplicationEnvironmentVariables(env, update) ==
    [k \in (DOMAIN env \cup {u \in DOMAIN update : update[u].IsSet})
            \ {u \in DOMAIN update : ~update[u].IsSet} |->
        IF k \in DOMAIN update THEN update[k].Value ELSE env[k]]

\* applyAppEnvironment past get-current-environment: the one update is sent, and the
\* platform applies it if it accepted it
applyAppEnvironment(accepted) ==
    LET update == desiredEnv(environment, cfg.environment)
    IN  /\ envUpdates' = Append(envUpdates, update)
        /\ environment' = IF accepted
                          THEN UpdateApplicationEnvironmentVariables(environment, update)
                          ELSE environment

AppUpdate_ApplyEnvironment ==
    /\ op = "appUpdate" /\ pc = "u_environment"
    /\ \E outcome \in {"ok", "get", "update"} :
          CASE outcome = "ok" -> /\ GoOnAt(LifecycleSwitch(currentDroplet, desiredDroplet))
                                 /\ applyAppEnvironment(TRUE)
            [] outcome = "get" -> /\ Return(diagFromClient("get-current-environment", <<>>, CCError))
                                  /\ UNCHANGED <<environment, envUpdates>>
            [] outcome = "update" -> /\ Return(diagFromClient("update-environment", <<>>, CCError))
                                     /\ applyAppEnvironment(FALSE)
    /\ UNCHANGED <<op, ctxDone, cfg, id, locals, desiredInstances, platform, observed>>

AppUpdate_SetApplicationDroplet ==
    /\ op = "appUpdate" /\ pc = "u_setDroplet"
    /\ \E err \in {NoErr, CCError} :
          IF err # NoErr
          THEN Return(diagFromClient("set-current-droplet", <<>>, err))
               /\ appDroplet' = appDroplet
          ELSE pc' = "u_getAppState" /\ diags' = diags /\ appDroplet' = desiredDroplet.GUID
    /\ seen' = [seen EXCEPT !.setDroplet = @ + 1]
    /\ UNCHANGED <<op, ctxDone, environment, envUpdates, cfg, id, locals, desiredInstances, packages, builds, staged, deployments, deploying, createCalls, failedSteps, attemptObs, rollout>>

\* `continue` of the retry loop while attempts remain, the return of ds otherwise
AppUpdate_ContinueOrReturn(attempt, step, ds) ==
    /\ failedSteps' = failedSteps \cup {step}
    /\ IF AttemptsRemain(attempt, maxDeployAttempts)
       THEN pc' = "u_create" /\ diags' = diags /\ rollout' = rollout
       ELSE pc' = "done" /\ diags' = ds /\ rollout' = "error"

\* top of the retry loop and its create-deployment call
AppUpdate_CreateDeployment ==
    /\ op = "appUpdate" /\ pc = "u_create"
    /\ currentDeployAttempt' = currentDeployAttempt + 1
    /\ createCalls' = createCalls + 1
    /\ attemptObs' = NoObs
    /\ \E err \in {NoErr, CCError}, warns \in WarningsLeft :
        LET ds == diagFromClient("create-deployment droplet:" \o desiredDroplet.GUID, warns, err)
        IN  /\ seen' = [seen EXCEPT !.warnings = @ + Len(warns)]
            /\ IF err # NoErr
               THEN /\ AppUpdate_ContinueOrReturn(currentDeployAttempt + 1, "create-deployment",
                                                  diags \o ds)
                    /\ UNCHANGED <<deployments, deploying, deploymentGUID, polls>>
               ELSE /\ deployments' = deployments + 1
                    /\ deploying' = {deployments + 1}
                    /\ deploymentGUID' = deployments + 1
                    /\ pc' = "u_deployWait" /\ polls' = 0
                    /\ UNCHANGED <<diags, failedSteps, rollout>>
    /\ UNCHANGED <<op, ctxDone, environment, envUpdates, cfg, id, app, currentDroplet, desiredDroplet, processes, process, desiredInstances,
                   refreshed, errs, packages, builds, staged, appDroplet>>

\* one poll of the deployment wait
AppUpdate_DeployPoll ==
    /\ op = "appUpdate" /\ pc = "u_deployWait"
    /\ \E resp \in Polled(GetDeploymentResponses) :
          /\ deploying' = PlatformDeploying(resp)
          /\ LET r == deploymentStateFunc(resp)
                 w == WaitForState(r, deploymentPendingStates, deploymentSuccessStates, polls)
             IN  CASE w.kind = "pending" ->
                        /\ polls' = polls + 1
                        /\ UNCHANGED <<pc, diags, failedSteps, attemptObs, rollout, appDroplet>>
                   [] w.kind = "target" ->
                        /\ pc' = "u_discover" /\ polls' = 0
                        /\ attemptObs' = [attemptObs EXCEPT !.deployment = "deployed",
                                                            !.status = resp.StatusValue,
                                                            !.reason = resp.StatusReason]
                        /\ appDroplet' = desiredDroplet.GUID
                        /\ UNCHANGED <<diags, failedSteps, rollout>>
                   [] w.kind = "error" ->
                        /\ AppUpdate_ContinueOrReturn(currentDeployAttempt, DeployWaitStep(r),
                                                      diags \o <<FromErr(w.err)>>)
                        /\ polls' = 0 /\ appDroplet' = appDroplet
                        /\ attemptObs' = [attemptObs EXCEPT !.deployment = DeployWaitObserved(r),
                                                            !.status = resp.StatusValue,
                                                            !.reason = resp.StatusReason]
    /\ UNCHANGED <<op, ctxDone, environment, envUpdates, cfg, id, app, currentDroplet, desiredDroplet, currentDeployAttempt,
                   deploymentGUID, processes, process, desiredInstances, refreshed, errs, packages, builds, staged,
                   deployments, createCalls, seen>>

AppUpdate_GetNewProcesses ==
    /\ op = "appUpdate" /\ pc = "u_discover"
    /\ \E n \in ProcessListings :
          IF n < 0
          THEN /\ AppUpdate_ContinueOrReturn(currentDeployAttempt, "other",
                     diags \o diagFromClient("get-new-application-processes", <<>>, CCError))
               /\ UNCHANGED <<processes, process, desiredInstances, polls, refreshed, attemptObs>>
          ELSE /\ EnterProcessLoop(n)
               /\ attemptObs' = [attemptObs EXCEPT !.processes = n]
               /\ pc' = IF n > 0 THEN "u_stabilize" ELSE "u_getAppState"
               /\ rollout' = IF n > 0 THEN rollout ELSE "ok"
               /\ UNCHANGED <<diags, failedSteps>>
    /\ UNCHANGED <<op, ctxDone, environment, envUpdates, cfg, id, app, currentDroplet, desiredDroplet, currentDeployAttempt,
                   deploymentGUID, errs, platform, createCalls, seen>>

\* variant of AppUpdate_NextProcess: no break after the range loop
AppUpdate_NextProcess_NoBreak ==
    /\ EnterProcessLoop(processes - 1)
    /\ pc' = IF processes > 1 THEN "u_stabilize" ELSE "u_create"
    /\ rollout' = rollout
    /\ diags' = diags

\* the range loop over the new processes goes on to its next process, or ends and the
\* retry loop is left by its break
AppUpdate_NextProcess ==
    /\ EnterProcessLoop(processes - 1)
    /\ pc' = IF processes > 1 THEN "u_stabilize" ELSE "u_getAppState"
    /\ rollout' = IF processes > 1 THEN rollout ELSE "ok"
    /\ diags' = diags

\* one poll cycle of the stability wait of a new process; after a failed wait the
\* `continue` is that of the range loop it stands in
AppUpdate_StabilizePoll ==
    /\ op = "appUpdate" /\ pc = "u_stabilize"
    /\ \E resp \in Polled(GetProcessInstancesResponses) :
        LET w == WaitForState(processInstanceStateFunc(resp, process),
                              processInstancePendingStates, processInstanceSuccessStates, polls)
        IN  CASE w.kind = "pending" ->
                  /\ polls' = polls + 1
                  /\ UNCHANGED <<pc, diags, processes, process, desiredInstances, refreshed, failedSteps,
                                 attemptObs, rollout>>
              [] w.kind = "target" ->
                  /\ AppUpdate_NextProcess
                  /\ attemptObs' = [attemptObs EXCEPT !.stable = @ + 1]
                  /\ failedSteps' = failedSteps
              [] w.kind = "error" ->
                  /\ attemptObs' = [attemptObs EXCEPT !.failed = @ + 1]
                  /\ IF AttemptsRemain(currentDeployAttempt, maxDeployAttempts)
                     THEN AppUpdate_NextProcess /\ failedSteps' = failedSteps
                     ELSE /\ pc' = "done" /\ diags' = <<FromErr(w.err)>>
                          /\ rollout' = "error" /\ failedSteps' = failedSteps \cup {"other"}
                          /\ polls' = 0
                          /\ UNCHANGED <<processes, process, desiredInstances, refreshed>>
    /\ UNCHANGED <<op, ctxDone, environment, envUpdates, cfg, id, app, currentDroplet, desiredDroplet, currentDeployAttempt,
                   deploymentGUID, errs, platform, createCalls, seen>>

\* the application is read again for its run state; a missing application is nil, and
\* its State is read
AppUpdate_GetApplicationState ==
    /\ op = "appUpdate" /\ pc = "u_getAppState"
    /\ \E resp \in GetApplicationResponses({app.LifecycleType}) :
          /\ app' = resp.app
          /\ IF resp.err # NoErr
             THEN Return(diagFromClient("get-applications", <<>>, resp.err)) /\ id' = id
             ELSE IF ~resp.found
             THEN /\ pc' = "panic" /\ id' = ""
                  /\ diags' = Append(diags, WarningDiag("app not found, removing from state",
                                                        "get-applications"))
             ELSE /\ id' = id /\ diags' = diags
                  /\ pc' = IF cfg.state = resp.app.State THEN "u_read"
                           ELSE IF cfg.state = "STOPPED" THEN "u_stop"
                           ELSE IF HasDropletToRun(desiredDroplet) THEN "u_start" ELSE "u_read"
          /\ seen' = IF resp.err # NoErr THEN seen
                     ELSE IF ~resp.found THEN [seen EXCEPT !.missing = "get-applications"]
                     ELSE [seen EXCEPT !.state = resp.app.State]
    /\ UNCHANGED <<op, ctxDone, environment, envUpdates, cfg, currentDroplet, desiredDroplet, currentDeployAttempt, deploymentGUID,
                   processes, process, desiredInstances, polls, refreshed, errs, platform,
                   createCalls, failedSteps, attemptObs, rollout>>

AppUpdate_StopApplication ==
    /\ op = "appUpdate" /\ pc = "u_stop"
    /\ \E err \in {NoErr, CCError} :
          IF err # NoErr THEN Return(diagFromClient("update-application", <<>>, err))
          ELSE pc' = "u_read" /\ diags' = diags
    /\ seen' = [seen EXCEPT !.stop = @ + 1]
    /\ UNCHANGED <<op, ctxDone, environment, envUpdates, cfg, id, locals, desiredInstances, platform, createCalls, failedSteps, attemptObs, rollout>>

AppUpdate_StartApplication ==
    /\ op = "appUpdate" /\ pc = "u_start"
    /\ \E err \in {NoErr, CCError} :
          IF err # NoErr THEN Return(diagFromClient("update-application", <<>>, err))
          ELSE pc' = "u_getProcesses" /\ diags' = diags
    /\ seen' = [seen EXCEPT !.start = @ + 1]
    /\ UNCHANGED <<op, ctxDone, environment, envUpdates, cfg, id, locals, desiredInstances, platform, createCalls, failedSteps, attemptObs, rollout>>

AppUpdate_GetApplicationProcesses ==
    /\ op = "appUpdate" /\ pc = "u_getProcesses"
    /\ \E n \in ProcessListings :
          IF n < 0
          THEN /\ Return(diagFromClient("get-application-processes", <<>>, CCError))
               /\ seen' = [seen EXCEPT !.listed = id]
               /\ UNCHANGED <<processes, process, desiredInstances, polls, refreshed>>
          ELSE /\ EnterProcessLoop(n)
               /\ pc' = IF n > 0 THEN "u_startStabilize" ELSE "u_read"
               /\ diags' = diags
               /\ seen' = [seen EXCEPT !.listed = id]
    /\ UNCHANGED <<op, ctxDone, environment, envUpdates, cfg, id, app, currentDroplet, desiredDroplet, currentDeployAttempt,
                   deploymentGUID, errs, platform,
                   createCalls, failedSteps, attemptObs, rollout>>

\* one poll cycle of the stability wait after the start; its error replaces the
\* diagnostics
AppUpdate_StartStabilizePoll ==
    /\ op = "appUpdate" /\ pc = "u_startStabilize"
    /\ \E resp \in Polled(GetProcessInstancesResponses) :
        LET w == WaitForState(processInstanceStateFunc(resp, process),
                              processInstancePendingStates, processInstanceSuccessStates, polls)
        IN  CASE w.kind = "pending" ->
                  /\ polls' = polls + 1
                  /\ UNCHANGED <<pc, diags, processes, process, desiredInstances, refreshed, seen>>
              [] w.kind = "target" ->
                  /\ EnterProcessLoop(processes - 1)
                  /\ pc' = IF processes > 1 THEN "u_startStabilize" ELSE "u_read"
                  /\ diags' = diags
                  /\ seen' = seen
              [] w.kind = "error" ->
                  /\ pc' = "done" /\ diags' = <<FromErr(w.err)>>
                  /\ polls' = 0
                  /\ UNCHANGED <<processes, process, desiredInstances, refreshed, seen>>
    /\ UNCHANGED <<op, ctxDone, environment, envUpdates, cfg, id, app, currentDroplet, desiredDroplet, currentDeployAttempt,
                   deploymentGUID, errs, platform,
                   createCalls, failedSteps, attemptObs, rollout>>

\* resourceAppRead of the app resource: the application, its environment and its web
\* process are read; a missing application is nil, and its GUID is read
resourceAppRead ==
    /\ op = "appUpdate" /\ pc = "u_read"
    /\ \E outcome \in {"ok", "get-applications", "missing", "get-application-environment",
                       "get-web-processes"} :
          /\ CASE outcome = "ok" -> Return(<<>>) /\ id' = id
              [] outcome = "missing" ->
                  /\ pc' = "panic" /\ id' = ""
                  /\ diags' = Append(diags, WarningDiag("app not found, removing from state",
                                                        "get-applications"))
              [] OTHER -> Return(diagFromClient(outcome, <<>>, CCError)) /\ id' = id
          /\ seen' = IF outcome = "missing" THEN [seen EXCEPT !.missing = "get-applications"]
                     ELSE seen
    /\ UNCHANGED <<op, ctxDone, environment, envUpdates, cfg, locals, desiredInstances, platform, createCalls, failedSteps, attemptObs, rollout>>

\* ------------------------------------- the app resource of the split design
\* what is configured for the application, as the set of changed keys
AppResourceConfigs ==
    {[NoCfg EXCEPT !.type = t, !.changed = ch] :
        t \in {"buildpack", "docker"}, ch \in {{}, {"environment"}, {"instances"}}}

\* variant of resourceAppCreate: the application is created in state STARTED
resourceAppCreate_Started ==
    /\ pc = "idle"
    /\ cfg' \in AppResourceConfigs
    /\ ctxDone' = FALSE /\ UNCHANGED <<environment, envUpdates>> /\ op' = "appCreate"
    /\ \E err \in {NoErr, CCError} :
          IF err # NoErr
          THEN Return(diagFromClient("create-application", <<>>, err)) /\ id' = id /\ seen' = seen
          ELSE /\ pc' = "a_getApp" /\ diags' = diags /\ id' = AppGUID
               /\ seen' = [seen EXCEPT !.created = "STARTED"]
    /\ UNCHANGED <<locals, desiredInstances, platform, createCalls, failedSteps, attemptObs, rollout>>

\* resourceAppCreate: create-application with State STOPPED, the ID is set, and
\* resourceAppUpdate goes on
resourceAppCreate ==
    /\ pc = "idle"
    /\ cfg' \in AppResourceConfigs
    /\ ctxDone' = FALSE /\ UNCHANGED <<environment, envUpdates>> /\ op' = "appCreate"
    /\ \E err \in {NoErr, CCError} :
          IF err # NoErr
          THEN Return(diagFromClient("create-application", <<>>, err)) /\ id' = id /\ seen' = seen
          ELSE /\ pc' = "a_getApp" /\ diags' = diags /\ id' = AppGUID
               /\ seen' = [seen EXCEPT !.created = "STOPPED"]
    /\ UNCHANGED <<locals, desiredInstances, platform, createCalls, failedSteps, attemptObs, rollout>>

\* resourceAppUpdate of the split design is called for an application resource
StartAppResourceUpdate ==
    /\ pc = "idle"
    /\ cfg' \in AppResourceConfigs
    /\ ctxDone' = FALSE /\ UNCHANGED <<environment, envUpdates>> /\ op' = "appResourceUpdate" /\ pc' = "a_getApp" /\ id' = AppGUID
    /\ UNCHANGED <<diags, locals, desiredInstances, platform, observed>>

\* its application lookup: a missing application is a warning, and the ID is cleared
App_GetApplication ==
    /\ op \in {"appCreate", "appResourceUpdate"} /\ pc = "a_getApp"
    /\ \E resp \in GetApplicationResponses({cfg.type}) :
          /\ app' = resp.app
          /\ IF resp.err # NoErr
             THEN Return(diagFromClient("get-applications", <<>>, resp.err))
                  /\ id' = id /\ seen' = seen
             ELSE IF ~resp.found
             THEN /\ Return(<<WarningDiag("app not found, removing from state",
                                          "get-application-for-update")>>)
                  /\ id' = ""
                  /\ seen' = [seen EXCEPT !.missing = "get-application-for-update"]
             ELSE pc' = "a_manifest" /\ diags' = diags /\ id' = id /\ seen' = seen
    /\ UNCHANGED <<op, ctxDone, environment, envUpdates, cfg, currentDroplet, desiredDroplet, currentDeployAttempt, deploymentGUID,
                   processes, process, desiredInstances, polls, refreshed, errs, platform,
                   createCalls, failedSteps, attemptObs, rollout>>

App_ApplyManifest ==
    /\ op \in {"appCreate", "appResourceUpdate"} /\ pc = "a_manifest"
    /\ \E outcome \in {"ok", "apply", "job"} :
          CASE outcome = "ok" ->
                  /\ pc' = IF "environment" \in cfg.changed THEN "a_environment" ELSE "a_read"
                  /\ diags' = diags
            [] outcome = "apply" -> Return(diagFromClient("apply-manifest", <<>>, CCError))
            [] outcome = "job" -> Return(<<FromErr(CCError)>>)
    /\ UNCHANGED <<op, ctxDone, environment, envUpdates, cfg, id, locals, desiredInstances, platform, observed>>

App_ApplyEnvironment ==
    /\ op \in {"appCreate", "appResourceUpdate"} /\ pc = "a_environment"
    /\ \E outcome \in {"ok", "get", "update"} :
          CASE outcome = "ok" -> /\ pc' = "a_read" /\ diags' = diags
                                 /\ applyAppEnvironment(TRUE)
            [] outcome = "get" -> /\ Return(diagFromClient("get-current-environment", <<>>, CCError))
                                  /\ UNCHANGED <<environment, envUpdates>>
            [] outcome = "update" -> /\ Return(diagFromClient("update-environment", <<>>, CCError))
                                     /\ applyAppEnvironment(FALSE)
    /\ UNCHANGED <<op, ctxDone, cfg, id, locals, desiredInstances, platform, observed>>

\* resourceAppRead of the split design: the ID is cleared if the application is missing
App_Read ==
    /\ op \in {"appCreate", "appResourceUpdate"} /\ pc = "a_read"
    /\ \E outcome \in {"ok", "get-applications", "missing", "get-application-environment",
                       "get-web-process"} :
          /\ CASE outcome = "ok" -> Return(<<>>) /\ id' = id
              [] outcome = "missing" -> Return(<<>>) /\ id' = ""
              [] OTHER -> Return(diagFromClient(outcome, <<>>, CCError)) /\ id' = id
          /\ seen' = IF outcome = "missing" THEN [seen EXCEPT !.missing = "get-applications"]
                     ELSE seen
    /\ UNCHANGED <<op, ctxDone, environment, envUpdates, cfg, locals, desiredInstances, platform, createCalls, failedSteps, attemptObs, rollout>>

Next ==
    \/ resourceDropletDelete
    \/ resourceAppCreate
    \/ StartAppResourceUpdate
    \/ App_GetApplication
    \/ App_ApplyManifest
    \/ App_ApplyEnvironment
    \/ App_Read
    \/ StartDeploymentCreate
    \/ Deployment_GetDroplet
    \/ Deployment_GetApplication
    \/ Deployment_CreateDeployment
    \/ Deployment_DeployPoll
    \/ Deployment_GetNewProcesses
    \/ Deployment_StabilizePoll
    \/ createDeploymentFromDropletWithRetry
    \/ Deployment_GetApplicationState
    \/ Deployment_StartApplication
    \/ Deployment_GetApplicationProcesses
    \/ Deployment_StartStabilizePoll
    \/ resourceDeploymentRead
    \/ Pipeline_CreatePackage
    \/ Pipeline_UploadBits
    \/ Pipeline_PackagePoll
    \/ Pipeline_CreateBuild
    \/ Pipeline_BuildPoll
    \/ Pipeline_GetBuild
    \/ Pipeline_GetDroplet
    \/ StartDropletCreate
    \/ Droplet_UpdateApplication
    \/ resourceDropletRead
    \/ StartAppUpdate
    \/ AppUpdate_GetApplication
    \/ AppUpdate_ApplyManifest
    \/ AppUpdate_GetCurrentDroplet
    \/ AppUpdate_ApplyEnvironment
    \/ AppUpdate_SetApplicationDroplet
    \/ AppUpdate_CreateDeployment
    \/ AppUpdate_DeployPoll
    \/ AppUpdate_GetNewProcesses
    \/ AppUpdate_StabilizePoll
    \/ AppUpdate_GetApplicationState
    \/ AppUpdate_StopApplication
    \/ AppUpdate_StartApplication
    \/ AppUpdate_GetApplicationProcesses
    \/ AppUpdate_StartStabilizePoll
    \/ resourceAppRead

Spec == Init /\ [][Next]_vars

\* ------------------------------------------- the rollout on its own
\* The create of the deployment resource and the update of the application resource,
\* up to the return of the deployment orchestrator
NextRollout ==
    \/ StartDeploymentCreate
    \/ Deployment_GetDroplet
    \/ Deployment_GetApplication
    \/ Deployment_CreateDeployment
    \/ Deployment_DeployPoll
    \/ Deployment_GetNewProcesses
    \/ Deployment_StabilizePoll
    \/ createDeploymentFromDropletWithRetry
    \/ StartAppUpdate
    \/ AppUpdate_GetApplication
    \/ AppUpdate_ApplyManifest
    \/ AppUpdate_GetCurrentDroplet
    \/ AppUpdate_ApplyEnvironment
    \/ Pipeline_CreatePackage
    \/ Pipeline_UploadBits
    \/ Pipeline_PackagePoll
    \/ Pipeline_CreateBuild
    \/ Pipeline_BuildPoll
    \/ Pipeline_GetBuild
    \/ Pipeline_GetDroplet
    \/ AppUpdate_SetApplicationDroplet
    \/ AppUpdate_CreateDeployment
    \/ AppUpdate_DeployPoll
    \/ AppUpdate_GetNewProcesses
    \/ AppUpdate_StabilizePoll

\* Every remote call returns and every step that can be taken is taken: the provider
\* runs an operation on, no step waits on anything but the remote call it makes or
\* the timer of its wait.
SpecFair == Init /\ [][NextRollout]_vars /\ WF_vars(NextRollout)

\* ------------------------------------------- the rollout under cancellation
\* the context of the running operation is cancelled: its timeout, or an interrupt
CancelContext ==
    /\ pc \notin {"idle", "done", "panic"} /\ ~ctxDone
    /\ ctxDone' = TRUE
    /\ UNCHANGED <<op, pc, cfg, id, diags, locals, platform, desiredInstances, environment,
                   envUpdates, observed>>

NextCancel ==
    \/ NextRollout
    \/ CancelContext

SpecCancel == Init /\ [][NextCancel]_vars

\* ------------------------------------------- the stability wait on its own
\* The first attempt of createDeploymentFromDroplet has found its new processes and
\* stands before the stability wait of the first of them.
InitStability ==
    /\ op = "deploymentCreate" /\ ctxDone = FALSE /\ pc = "c_stabilize"
    /\ cfg = [NoCfg EXCEPT !.droplet_id = "droplet-x"] /\ id = "" /\ diags = <<>>
    /\ app \in {resp.app : resp \in {a \in GetApplicationResponses({"buildpack"}) :
                                        a.err = NoErr /\ a.found}}
    /\ currentDroplet = ""
    /\ desiredDroplet \in {[GUID |-> "droplet-x", State |-> st] : st \in DropletStates}
    /\ currentDeployAttempt = 1 /\ deploymentGUID = 1
    /\ processes \in 1..MaxProcesses /\ process \in DesiredInstances
    /\ desiredInstances = process
    /\ environment = AppEnvironment /\ envUpdates = <<>>
    /\ polls = 0 /\ refreshed = NoRefresh /\ errs = <<>>
    /\ packages = 0 /\ builds = 0 /\ staged = {} /\ deployments = 1 /\ deploying = {}
    /\ appDroplet = "droplet-x" /\ seen = NoSeen
    /\ createCalls = 1 /\ failedSteps = {}
    /\ attemptObs = [NoObs EXCEPT !.deployment = "deployed", !.processes = processes]
    /\ rollout = "none"

\* the poll cycles of the wait, each in two steps: the refresh, then the wait's reading
\* another actor scales the process the wait is on, between two polls of the wait
ScaleProcess ==
    /\ pc = "c_stabilize" /\ ~refreshed.fresh
    /\ desiredInstances' \in DesiredInstances \ {desiredInstances}
    /\ UNCHANGED <<op, ctxDone, environment, envUpdates, pc, cfg, id, diags, locals, platform, observed>>

NextStability ==
    \/ RefreshProcessInstances
    \/ Deployment_StabilizeWait
    \/ ScaleProcess

SpecStability == InitStability /\ [][NextStability]_vars

\* ------------------------------------------- applyAppEnvironment on its own
EnvKeys == {"KEY" \o ToString(i) : i \in 1..MaxEnvKeys}
EnvValues == {"", "1"}
Environments == UNION {[K -> EnvValues] : K \in SUBSET EnvKeys}

\* resourceAppUpdate, or resourceAppCreate of the split design, stands before
\* applyAppEnvironment: the environment block changed, and the application has any
\* environment on the platform
InitEnv ==
    /\ \/ op = "appUpdate" /\ pc = "u_environment"
          /\ cfg \in {[NoCfg EXCEPT !.state = "STARTED", !.changed = {"environment"},
                                    !.environment = e] : e \in Environments}
          /\ seen = NoSeen
       \/ op = "appCreate" /\ pc = "a_environment"
          /\ cfg \in {[NoCfg EXCEPT !.type = "buildpack", !.changed = {"environment"},
                                    !.environment = e] : e \in Environments}
          /\ seen = [NoSeen EXCEPT !.created = "STOPPED"]
    /\ ctxDone = FALSE /\ id = AppGUID /\ diags = <<>>
    /\ app = [GUID |-> AppGUID, State |-> "STARTED", LifecycleType |-> "buildpack"]
    /\ currentDroplet = "" /\ desiredDroplet = NoDroplet
    /\ currentDeployAttempt = 0 /\ deploymentGUID = 0
    /\ processes = 0 /\ process = 0 /\ polls = 0 /\ refreshed = NoRefresh
    /\ desiredInstances = 0 /\ errs = <<>>
    /\ environment \in Environments /\ envUpdates = <<>>
    /\ packages = 0 /\ builds = 0 /\ staged = {} /\ deployments = 0 /\ deploying = {}
    /\ appDroplet = ""
    /\ createCalls = 0 /\ failedSteps = {} /\ attemptObs = NoObs /\ rollout = "none"

NextEnv ==
    \/ AppUpdate_ApplyEnvironment
    \/ App_ApplyEnvironment

SpecEnv == InitEnv /\ [][NextEnv]_vars

\* ------------------------------------------------------------- properties

\* C1: the create-deployment calls of a rollout never exceed the maximum of its path
\* (3 in the deployment resource, 5 in the update of the application resource), and a
\* rollout that ends in an error with no deployment ever created, every call having
\* failed, has made exactly that many calls.
C1_AttemptsBounded ==
    LET max == IF op = "appUpdate" THEN maxDeployAttempts ELSE MaxDeploymentAttempts
    IN  /\ createCalls <= max
        /\ currentDeployAttempt = createCalls
        /\ (rollout = "error" /\ deployments = 0 /\ failedSteps = {"create-deployment"})
              => createCalls = max

C1_Witness ==
    /\ op = "appUpdate" /\ pc = "done" /\ rollout = "error"
    /\ deployments = 0 /\ createCalls = maxDeployAttempts

\* C2: a rollout is a success only if, in the attempt that ended it, the deployment
\* was seen deployed and every new process was seen stable with no stability wait
\* of that attempt ending in an error.
C2_SuccessOnlyIfStable ==
    rollout = "ok" =>
        /\ attemptObs.deployment = "deployed"
        /\ attemptObs.failed = 0
        /\ attemptObs.stable = attemptObs.processes

\* C3: a stability wait that fails on an attempt that is not the last one ends the
\* attempt: the next remote action is a create-deployment call, not the stability poll
\* of another process and not a step after the retry loop.
C3_StabilityFailureRetries ==
    [][(/\ attemptObs'.failed = attemptObs.failed + 1
        /\ currentDeployAttempt < (IF op = "appUpdate" THEN maxDeployAttempts
                                                       ELSE MaxDeploymentAttempts))
          => \/ pc' = "u_create"
             \/ pc' = "c_attemptDone" /\ HasError(errs')]_vars

\* C4: in the deployment resource, when the deployment of every attempt finalizes with
\* a failure reason, the create returns one error, that of the last attempt, which is
\* the third, with the resource ID unset and no fourth create-deployment call.
C4_LastAttemptErrorReturned ==
    (op = "deploymentCreate" /\ rollout = "error" /\ failedSteps = {"deployment failed"})
        => /\ pc = "done"
           /\ createCalls = MaxDeploymentAttempts
           /\ currentDeployAttempt = MaxDeploymentAttempts
           /\ id = ""
           /\ attemptObs.reason \in DeploymentFailureReasons
           /\ SelectSeq(diags, LAMBDA dg : dg.severity = "Error")
                 = <<FromErr(DeploymentFailedErr(attemptObs.reason))>>

C4_Witness ==
    /\ op = "deploymentCreate" /\ rollout = "error" /\ failedSteps = {"deployment failed"}
    /\ deployments = MaxDeploymentAttempts /\ attemptObs.reason = "SUPERSEDED"

\* C5: in the update of the application resource, when the deployments of attempts 1
\* and 2 finalized with a failure reason and that of attempt 3 is deployed with every
\* new process of it stable, the rollout is a success after exactly 3 create-deployment
\* calls, each of which made a deployment of its own.
C5_ThirdAttemptSucceeds ==
    (/\ op = "appUpdate" /\ currentDeployAttempt = 3
     /\ failedSteps = {"deployment failed"}
     /\ attemptObs.deployment = "deployed"
     /\ attemptObs.stable = attemptObs.processes)
        => /\ rollout = "ok"
           /\ createCalls = 3
           /\ deployments = 3 /\ deploymentGUID = 3

C5_Witness ==
    /\ op = "appUpdate" /\ currentDeployAttempt = 3 /\ rollout = "ok"
    /\ failedSteps = {"deployment failed"}
    /\ attemptObs.deployment = "deployed"
    /\ attemptObs.processes = MaxProcesses /\ attemptObs.stable = MaxProcesses

\* C6, as stated: whenever a refresh of the stability wait finds one or more instances
\* and all of them crashed, the wait ends on that poll with the error 'all N process
\* instances are in a crashed state', and the process is not polled again.
C6_AllCrashedEndsWait ==
    [][(/\ refreshed.fresh /\ ~refreshed.nil
        /\ Len(refreshed.instances) > 0
        /\ \A i \in 1..Len(refreshed.instances) : refreshed.instances[i] = "CRASHED")
          => /\ pc' = "c_attemptDone"
             /\ errs' = <<FromErr(CrashedErr(Len(refreshed.instances)))>>
             /\ processes' = processes]_vars

\* C6, amended: the same, for a process whose desired instance count is not 0.
C6_AllCrashedEndsWait_Amended ==
    [][(/\ refreshed.fresh /\ ~refreshed.nil
        /\ process # 0
        /\ Len(refreshed.instances) > 0
        /\ \A i \in 1..Len(refreshed.instances) : refreshed.instances[i] = "CRASHED")
          => /\ pc' = "c_attemptDone"
             /\ errs' = <<FromErr(CrashedErr(Len(refreshed.instances)))>>
             /\ processes' = processes]_vars

C6_Witness ==
    /\ pc = "c_attemptDone" /\ process = 2 /\ polls = 0
    /\ errs = <<FromErr(CrashedErr(2))>>
    /\ attemptObs.failed = 1

\* C7: the verdict of a refresh is one of stable, crashed and pending, and it is the
\* one the counts give: with N instances, r running, c crashed and d desired, stable
\* if N = 0 or r = d, else crashed if c = N, else pending; crashed, and only crashed,
\* comes with an error.
C7_VerdictIsReference ==
    (refreshed.fresh /\ ~refreshed.nil) =>
        LET N == Len(refreshed.instances)
            r == Cardinality({i \in 1..N : refreshed.instances[i] = "RUNNING"})
            c == Cardinality({i \in 1..N : refreshed.instances[i] = "CRASHED"})
            d == process
        IN  /\ refreshed.label \in {ProcessInstancesStable, ProcessInstancesCrashed,
                                    ProcessInstancesPending}
            /\ refreshed.label = (IF N = 0 \/ r = d THEN ProcessInstancesStable
                                  ELSE IF c = N THEN ProcessInstancesCrashed
                                  ELSE ProcessInstancesPending)
            /\ (refreshed.err # NoErr) <=> (refreshed.label = ProcessInstancesCrashed)

C7_Witness ==
    /\ refreshed.fresh /\ ~refreshed.nil
    /\ refreshed.instances = <<"RUNNING", "CRASHED">> /\ process = 2
    /\ refreshed.label = ProcessInstancesPending

\* C8, as stated: for every desired count, a refresh that finds one or more instances
\* and all of them crashed gives the verdict crashed.
C8_AllCrashedIsCrashed ==
    (/\ refreshed.fresh /\ ~refreshed.nil
     /\ Len(refreshed.instances) > 0
     /\ \A i \in 1..Len(refreshed.instances) : refreshed.instances[i] = "CRASHED")
        => refreshed.label = ProcessInstancesCrashed

\* C8, amended: for every desired count other than 0, a refresh that finds one or more
\* instances and all of them crashed gives the verdict crashed, with its error.
C8_AllCrashedIsCrashed_Amended ==
    (/\ refreshed.fresh /\ ~refreshed.nil
     /\ process # 0
     /\ Len(refreshed.instances) > 0
     /\ \A i \in 1..Len(refreshed.instances) : refreshed.instances[i] = "CRASHED")
        => /\ refreshed.label = ProcessInstancesCrashed
           /\ refreshed.err = CrashedErr(Len(refreshed.instances))

C8_Witness ==
    /\ refreshed.fresh /\ refreshed.label = ProcessInstancesCrashed
    /\ refreshed.instances = <<"CRASHED">> /\ process = 2

\* C9: when the archive of a buildpack application is not configured or cannot be
\* opened, no package is created on the platform.
C9_NoPackageWithoutArchive ==
    (/\ op \in {"dropletCreate", "appUpdate"}
     /\ PipelineType = "buildpack"
     /\ ~Openable(cfg.source_code_path))
        => packages = 0

\* C10: every create-deployment call is made for a droplet that is staged.
C10_DeployedDropletIsStaged ==
    createCalls > 0 => desiredDroplet.State = "STAGED"

\* C11: in the update of the application resource, once the rollout decision is
\* taken: with a desired droplet other than the current one, a desired state STARTED
\* means create-deployment is called and set-current-droplet never is, any other
\* desired state means set-current-droplet is called once, for the desired droplet, and
\* no deployment is created; with the same droplet neither is called.
C11_RolloutOrSetDroplet ==
    op = "appUpdate" =>
        LET differ == desiredDroplet.GUID # currentDroplet
            decided == pc \in {"u_getAppState", "u_stop", "u_start", "u_getProcesses",
                               "u_startStabilize", "u_read"}
        IN  /\ seen.setDroplet <= 1
            /\ seen.setDroplet > 0 =>
                  createCalls = 0 /\ deployments = 0 /\ cfg.state # "STARTED" /\ differ
            /\ createCalls > 0 => seen.setDroplet = 0 /\ cfg.state = "STARTED" /\ differ
            /\ (decided /\ differ /\ cfg.state = "STARTED") =>
                  createCalls >= 1 /\ seen.setDroplet = 0
            /\ (decided /\ differ /\ cfg.state # "STARTED") =>
                  /\ seen.setDroplet = 1 /\ createCalls = 0 /\ deployments = 0
                  /\ appDroplet = desiredDroplet.GUID
            /\ (decided /\ ~differ) => createCalls = 0 /\ seen.setDroplet = 0

C11_Witness ==
    /\ op = "appUpdate" /\ pc = "u_getAppState" /\ cfg.state = "STOPPED"
    /\ seen.setDroplet = 1 /\ currentDroplet = "droplet-0" /\ desiredDroplet.GUID = "droplet-1"

\* C12: in the update of the application resource the pipeline runs for an archive
\* only if the lifecycle type is buildpack, a source path is configured and one of
\* buildpacks, source_code_path, source_code_hash, stack, environment changed, and for
\* an image only if the type is docker, an image is configured and one of docker_image,
\* docker_username, docker_password, environment changed; past the lifecycle switch,
\* one package and one build were created if one of the two holds, and otherwise no
\* package and no build were created and the desired droplet is the current one.
C12_PipelineRule ==
    (op = "appUpdate" /\ app.GUID # "") =>
        LET archive == /\ app.LifecycleType = "buildpack"
                       /\ cfg.source_code_path # ""
                       /\ cfg.changed \cap {"buildpacks", "source_code_path",
                                            "source_code_hash", "stack", "environment"} # {}
            image == /\ app.LifecycleType = "docker"
                     /\ cfg.docker_image # ""
                     /\ cfg.changed \cap {"docker_image", "docker_username",
                                          "docker_password", "environment"} # {}
            staging == pc \in {"p_createPackage", "p_upload", "p_packageWait",
                               "p_createBuild", "p_buildWait", "p_getBuild", "p_getDroplet"}
            switched == pc \in {"u_create", "u_deployWait", "u_discover", "u_stabilize",
                                "u_setDroplet", "u_getAppState", "u_stop", "u_start",
                                "u_getProcesses", "u_startStabilize", "u_read"}
        IN  /\ staging => archive \/ image
            /\ pc \in {"p_upload", "p_packageWait"} => archive
            /\ (switched /\ (archive \/ image)) =>
                  /\ packages = 1 /\ builds = 1
                  /\ desiredDroplet.GUID = DropletOfBuild(1)
            /\ ~(archive \/ image) =>
                  /\ packages = 0 /\ builds = 0
                  /\ pc \notin {"u_getApp", "u_manifest", "u_currentDroplet"}
                        => desiredDroplet.GUID = currentDroplet

C12_Witness ==
    /\ op = "appUpdate" /\ pc = "u_create" /\ app.LifecycleType = "buildpack"
    /\ cfg.changed = {"source_code_hash"} /\ cfg.source_code_path = "app.zip"
    /\ packages = 1 /\ builds = 1 /\ desiredDroplet.GUID = "droplet-1"

\* C13: in the run-state reconciliation of an update of the application resource or a
\* create of the deployment resource, a start or stop request is issued exactly if the
\* desired state differs from the state just read; after a stop nothing is listed and
\* nothing is waited for; after a start the processes listed are those of the
\* application, and the resource read that follows the reconciliation is reached only
\* with none of them left to be observed stable.
C13_ReconcileRunState ==
    op \in {"appUpdate", "deploymentCreate"} =>
        LET desired == IF op = "deploymentCreate" THEN "STARTED" ELSE cfg.state
            reconciled == pc \in {"u_read", "c_read"} /\ seen.state # ""
        IN  /\ seen.start + seen.stop > 0 => seen.state # "" /\ desired # seen.state
            /\ (reconciled /\ desired # seen.state) => seen.start + seen.stop = 1
            /\ seen.stop > 0 =>
                  seen.start = 0 /\ seen.listed = ""
            /\ seen.listed # "" => seen.start = 1 /\ seen.listed = AppGUID
            /\ (reconciled /\ seen.start > 0) =>
                  seen.listed # "" /\ processes = 0

\* C14: when a read or update of the application resource, a read of the droplet
\* resource, or one of the two application lookups of a create of the deployment
\* resource finds the application or the droplet gone, the operation has returned with
\* the resource ID cleared and no error diagnostic.
C14_MissingClearsID ==
    (op \in {"appCreate", "appResourceUpdate", "dropletCreate", "deploymentCreate"}
     /\ seen.missing # "") =>
        pc = "done" /\ id = "" /\ ~HasError(diags)

\* C15: after an update of the application resource that returned without error and
\* in which the environment or source_code_hash of a started buildpack application
\* changed, or the environment of a docker application, the current droplet of the
\* application is a droplet built by this update, other than the one before it.
C15_ChangeGivesNewDroplet ==
    (/\ op = "appUpdate" /\ pc = "done" /\ ~HasError(diags)
     /\ \/ /\ app.LifecycleType = "buildpack" /\ cfg.state = "STARTED"
           /\ cfg.changed \cap {"environment", "source_code_hash"} # {}
        \/ app.LifecycleType = "docker" /\ "environment" \in cfg.changed)
    => /\ builds = 1 /\ appDroplet = DropletOfBuild(1)
       /\ appDroplet \in staged /\ appDroplet \notin DropletsBefore

\* C15, amended: the same for an application whose source is configured
\* (source_code_path of the buildpack application, docker_image of the docker one).
C15_ChangeGivesNewDroplet_Amended ==
    (/\ op = "appUpdate" /\ pc = "done" /\ ~HasError(diags)
     /\ \/ /\ app.LifecycleType = "buildpack" /\ cfg.state = "STARTED"
           /\ cfg.source_code_path # ""
           /\ cfg.changed \cap {"environment", "source_code_hash"} # {}
        \/ /\ app.LifecycleType = "docker" /\ cfg.docker_image # ""
           /\ "environment" \in cfg.changed)
    => /\ builds = 1 /\ appDroplet = DropletOfBuild(1)
       /\ appDroplet \in staged /\ appDroplet \notin DropletsBefore

C15_Witness ==
    /\ op = "appUpdate" /\ pc = "done" /\ ~HasError(diags)
    /\ app.LifecycleType = "buildpack" /\ cfg.state = "STARTED"
    /\ cfg.source_code_path = "app.zip" /\ cfg.changed = {"environment"}
    /\ currentDroplet = "droplet-0" /\ appDroplet = "droplet-1" /\ deployments = 1

\* C16: no step of an update of the application resource (of either design) whose
\* only changed key is the instance count creates a package, a build or a deployment,
\* calls set-current-droplet, or changes the current droplet of the application.
C16_InstancesOnlyStagesNothing ==
    [][(op' \in {"appUpdate", "appResourceUpdate"} /\ op' = op /\ cfg.changed = {"instances"})
        => /\ UNCHANGED <<packages, builds, deployments, createCalls, appDroplet>>
           /\ seen'.setDroplet = seen.setDroplet
           /\ packages = 0 /\ builds = 0 /\ deployments = 0 /\ createCalls = 0
           /\ seen.setDroplet = 0]_vars

C16_Witness ==
    /\ op = "appUpdate" /\ pc = "done" /\ ~HasError(diags)
    /\ cfg.changed = {"instances"} /\ cfg.source_code_path = "app.zip"
    /\ cfg.state = "STARTED" /\ seen.start = 1 /\ appDroplet = "droplet-0"

\* C17: when the retried rollout has returned its final error, the diagnostics
\* returned hold one error, which names create-deployment if that call failed in the
\* last attempt and get-new-application-processes if that call did, and they hold
\* every warning the platform returned with its answers, those of the earlier failed
\* attempts included.
C17_FinalErrorNamesStepKeepsWarnings ==
    rollout = "error" =>
        LET errors == SelectSeq(diags, LAMBDA dg : dg.severity = "Error")
            warnings == SelectSeq(diags, LAMBDA dg : dg.severity = "Warning")
        IN  /\ Len(errors) = 1
            /\ attemptObs.deployment = "none" =>
                  errors[1].detail = "create-deployment droplet:" \o desiredDroplet.GUID
            /\ (attemptObs.deployment = "deployed" /\ attemptObs.processes = -1) =>
                  errors[1].detail = "get-new-application-processes"
            /\ Len(warnings) = seen.warnings

\* C18: in the update of the application resource with a valid archive, when nothing
\* failed: the package and the build were made, the deployment of the first attempt
\* is deployed and every new process of it is stable, the rollout is a success after
\* exactly one package, one build and one deployment, and the current droplet of the
\* application is the droplet of that build.
C18_AllSucceedOnePass ==
    (/\ op = "appUpdate" /\ app.LifecycleType = "buildpack"
     /\ cfg.source_code_path = "app.zip"
     /\ failedSteps = {} /\ currentDeployAttempt = 1
     /\ attemptObs.deployment = "deployed"
     /\ attemptObs.stable = attemptObs.processes)
        => /\ rollout = "ok"
           /\ packages = 1 /\ builds = 1
           /\ createCalls = 1 /\ deployments = 1
           /\ DropletOfBuild(1) \in staged
           /\ desiredDroplet.GUID = DropletOfBuild(1)
           /\ appDroplet = DropletOfBuild(1)

C18_Witness ==
    /\ op = "appUpdate" /\ pc = "done" /\ ~HasError(diags) /\ rollout = "ok"
    /\ app.LifecycleType = "buildpack" /\ cfg.source_code_path = "app.zip"
    /\ failedSteps = {} /\ currentDeployAttempt = 1
    /\ attemptObs.processes = 1 /\ attemptObs.stable = 1
    /\ packages = 1 /\ builds = 1 /\ deployments = 1 /\ appDroplet = "droplet-1"

\* C19: a create or an update of the application resource of the split design creates
\* no package, no build and no deployment and calls neither start-application nor
\* set-current-droplet, and the application a create made was created STOPPED.
C19_AppResourceNeverStages ==
    op \in {"appCreate", "appResourceUpdate"} =>
        /\ packages = 0 /\ builds = 0 /\ staged = {}
        /\ createCalls = 0 /\ deployments = 0
        /\ seen.start = 0 /\ seen.setDroplet = 0
        /\ seen.created \in {"", "STOPPED"}
        /\ (op = "appCreate" /\ pc = "done" /\ ~HasError(diags) /\ id # "")
              => seen.created = "STOPPED"

C19_Witness ==
    /\ op = "appCreate" /\ pc = "done" /\ ~HasError(diags)
    /\ id = AppGUID /\ seen.created = "STOPPED" /\ "environment" \in cfg.changed

\* C20: no step removes a droplet from the platform, and the delete of a droplet
\* resource changes nothing on the platform and returns without a diagnostic.
C20_DropletDeleteIsNoOp ==
    [][/\ staged \subseteq staged'
       /\ op' = "dropletDelete" =>
             /\ UNCHANGED <<packages, builds, staged, deployments, appDroplet>>
             /\ pc' = "done" /\ diags' = <<>>]_vars

C20_Witness ==
    /\ op = "dropletDelete" /\ pc = "done" /\ diags = <<>>
    /\ builds = 1 /\ id = DropletOfBuild(1) /\ id \in staged

\* C21: in the pipeline for an archive the calls are made in order: upload-bits only
\* after create-package succeeded, create-build only after the package wait saw the
\* package READY, get-droplet only after the build wait saw the build STAGED, and the
\* droplet the pipeline returns is the droplet of the build it made.
C21_ArchiveStepsInOrder ==
    LET t == seen.trace
        Before(i, call, result) ==
            \E j \in 1..(i - 1) : t[j] = [call |-> call, result |-> result]
    IN  (PipelineType = "buildpack" /\ op \in {"appUpdate", "dropletCreate"}) =>
            /\ \A i \in 1..Len(t) :
                  /\ t[i].call = "upload-bits" => Before(i, "create-package", "ok")
                  /\ t[i].call = "get-package" => Before(i, "upload-bits", "ok")
                  /\ t[i].call = "create-build" => Before(i, "get-package", "READY")
                  /\ t[i].call = "get-build-state" => Before(i, "create-build", "ok")
                  /\ t[i].call = "get-droplet" =>
                        /\ Before(i, "get-build-state", "STAGED")
                        /\ t[i].result \in {"error", DropletOfBuild(builds)}
            /\ pc = "p_upload" => t[Len(t)] = [call |-> "create-package", result |-> "ok"]
            /\ pc = "p_createBuild" => t[Len(t)] = [call |-> "get-package", result |-> "READY"]
            /\ pc = "p_getDroplet" => DropletOfBuild(builds) \in staged
            /\ (op = "dropletCreate" /\ pc \in {"d_read", "done"} /\ id # "") =>
                  builds = 1 /\ id = DropletOfBuild(1) /\ id \in staged
            /\ (op = "appUpdate" /\ Len(t) > 0 /\ t[Len(t)].call = "get-droplet"
                /\ t[Len(t)].result # "error") =>
                  builds = 1 /\ desiredDroplet.GUID = DropletOfBuild(1)

C21_Witness ==
    /\ op = "dropletCreate" /\ pc = "done" /\ ~HasError(diags) /\ cfg.type = "buildpack"
    /\ id = "droplet-1"
    /\ seen.trace = <<[call |-> "create-package", result |-> "ok"],
                      [call |-> "upload-bits", result |-> "ok"],
                      [call |-> "get-package", result |-> "READY"],
                      [call |-> "create-build", result |-> "ok"],
                      [call |-> "get-build-state", result |-> "STAGED"],
                      [call |-> "get-build", result |-> "ok"],
                      [call |-> "get-droplet", result |-> "droplet-1"]>>

\* C22: every attempt of a rollout makes one create-deployment call, which creates at
\* most one deployment; the deployment an attempt polls and fetches the new processes
\* of is the one that call created, no step other than that call changes which
\* deployment is in hand, and the deployment resource takes as its ID the deployment
\* of the attempt that succeeded.
C22_AttemptOwnsItsDeployment ==
    [][LET inAttempt == {"c_deployWait", "c_discover", "c_stabilize",
                         "u_deployWait", "u_discover", "u_stabilize"}
       IN  /\ currentDeployAttempt' # currentDeployAttempt =>
                /\ currentDeployAttempt' = currentDeployAttempt + 1
                /\ createCalls' = createCalls + 1
                /\ deployments' \in {deployments, deployments + 1}
                /\ pc' \in inAttempt =>
                      deployments' = deployments + 1 /\ deploymentGUID' = deployments'
           /\ currentDeployAttempt' = currentDeployAttempt =>
                /\ UNCHANGED <<deployments, deploymentGUID, createCalls>>
                /\ pc' \in inAttempt => pc \in inAttempt
           /\ (op' = "deploymentCreate" /\ rollout' = "ok" /\ rollout # "ok") =>
                id' = "deployment-" \o ToString(deployments')]_vars

C22_Witness ==
    /\ op = "deploymentCreate" /\ rollout = "ok" /\ currentDeployAttempt = 2
    /\ deployments = 2 /\ deploymentGUID = 2 /\ id = "deployment-2"
    /\ failedSteps = {"deployment failed"}

\* C23: when the deployment wait of an attempt has ended by its timeout, the attempt
\* is a failed one: the rollout is not a success, the attempt is counted as failed,
\* a new attempt with its own create-deployment call follows only while attempts
\* remain, and once none remains the operation has returned the timeout error.
C23_DeployTimeoutFailsAttempt ==
    attemptObs.deployment = "timeout" =>
        LET max == IF op = "appUpdate" THEN maxDeployAttempts ELSE MaxDeploymentAttempts
            timeout == FromErr(TimeoutErr("DEPLOYED"))
        IN  /\ op \in {"appUpdate", "deploymentCreate"}
            /\ rollout # "ok" /\ "other" \in failedSteps
            /\ pc \in {"c_attemptDone", "c_create", "u_create", "done"}
            /\ pc = "c_attemptDone" => errs # <<>> /\ errs[Len(errs)] = timeout
            /\ pc \in {"c_create", "u_create"} =>
                  currentDeployAttempt < max /\ rollout = "none" /\ ~HasError(diags)
            /\ pc = "done" =>
                  /\ currentDeployAttempt = max /\ rollout = "error"
                  /\ diags # <<>> /\ diags[Len(diags)] = timeout

C23_Witness ==
    /\ op = "appUpdate" /\ pc = "done" /\ rollout = "error"
    /\ attemptObs.deployment = "timeout" /\ currentDeployAttempt = maxDeployAttempts
    /\ createCalls = maxDeployAttempts /\ failedSteps = {"other"}

\* C24: in the wait that follows the creation of a package, a build or a deployment,
\* a poll made before NotFoundChecks polls of that wait have passed, the one right
\* after the creation among them, does not end the wait with the platform's
\* not-found answer as its error.
C24_NotFoundAfterCreationTolerated ==
    [][(polls < NotFoundChecks /\ pc # pc') =>
          /\ pc \in {"p_packageWait", "p_buildWait"} =>
                ~(diags' # <<>> /\ diags'[Len(diags')] = FromErr(ResourceNotFoundError))
          /\ pc \in {"c_deployWait", "u_deployWait"} =>
                attemptObs'.deployment # "not found"]_vars

\* C25: deploymentStateFunc returns a get-deployment error as the error; otherwise it
\* labels the deployment pending exactly when its status value is deploying, success
\* exactly when the status value is finalized and the reason deployed, and a failure
\* (a label outside both sets, with an error) exactly when it is finalized with
\* another reason; and what each attempt observed of its deployment wait agrees.
C25_DeploymentLabels ==
    /\ \A resp \in GetDeploymentResponses :
          LET r == deploymentStateFunc(resp)
              finalized == resp.StatusValue = "FINALIZED"
              deployed == resp.StatusReason = "DEPLOYED"
          IN  IF resp.err # NoErr THEN r.err = resp.err
              ELSE /\ r.label \in deploymentPendingStates <=> resp.StatusValue = "DEPLOYING"
                   /\ r.label \in deploymentSuccessStates <=> (finalized /\ deployed)
                   /\ (/\ r.label \notin deploymentPendingStates \cup deploymentSuccessStates
                       /\ r.err # NoErr) <=> (finalized /\ ~deployed)
    /\ attemptObs.deployment = "timeout" => attemptObs.status = "DEPLOYING"
    /\ attemptObs.deployment = "deployed" =>
          attemptObs.status = "FINALIZED" /\ attemptObs.reason = "DEPLOYED"
    /\ attemptObs.deployment = "deployment failed" =>
          attemptObs.status = "FINALIZED" /\ attemptObs.reason # "DEPLOYED"

\* C25 as the code has it: the deployment is labelled pending exactly when its status
\* value is anything other than finalized, deploying among them.
C25_DeploymentLabels_Amended ==
    /\ \A resp \in GetDeploymentResponses :
          LET r == deploymentStateFunc(resp)
              finalized == resp.StatusValue = "FINALIZED"
              deployed == resp.StatusReason = "DEPLOYED"
          IN  IF resp.err # NoErr THEN r.err = resp.err /\ r.nil
              ELSE /\ r.label \in deploymentPendingStates <=> ~finalized
                   /\ r.label \in deploymentSuccessStates <=> (finalized /\ deployed)
                   /\ (/\ r.label \notin deploymentPendingStates \cup deploymentSuccessStates
                       /\ r.err # NoErr) <=> (finalized /\ ~deployed)
    /\ attemptObs.deployment = "timeout" => attemptObs.status \in {"DEPLOYING", "ACTIVE"}
    /\ attemptObs.deployment = "deployed" =>
          attemptObs.status = "FINALIZED" /\ attemptObs.reason = "DEPLOYED"
    /\ attemptObs.deployment = "deployment failed" =>
          attemptObs.status = "FINALIZED" /\ attemptObs.reason # "DEPLOYED"
    /\ attemptObs.deployment \in {"other", "not found"} => attemptObs.status = ""

C25_Witness ==
    /\ op = "deploymentCreate" /\ pc = "c_attemptDone"
    /\ attemptObs.deployment = "timeout" /\ attemptObs.status = "ACTIVE"
    /\ errs = <<FromErr(TimeoutErr("DEPLOYED"))>>

\* C26: the verdict of every stability poll is the one that the instances fetched in
\* that poll give against the desired instance count the process has on the platform
\* at that poll, also after another actor has changed that count during the wait.
C26_VerdictFromFreshState ==
    (pc = "c_stabilize" /\ refreshed.fresh /\ ~refreshed.nil) =>
        refreshed = processInstanceStateFunc([err |-> NoErr, instances |-> refreshed.instances],
                                             desiredInstances)

\* C27: when a refresh of the package wait or of the build wait returns a label that
\* is neither pending nor success (FAILED), the wait returns an error on that poll:
\* that refresh is the last remote call of the pipeline, which has returned the error,
\* so no create-build or get-droplet call follows it.
C27_FailedLabelEndsPipeline ==
    \A i \in 1..Len(seen.trace) :
        LET c == seen.trace[i]
            bad == \/ /\ c.call = "get-package"
                      /\ c.result \notin packagePendingStates \cup packageSuccessStates
                   \/ /\ c.call = "get-build-state"
                      /\ c.result \notin buildPendingStates \cup buildSuccessStates
        IN  (bad /\ c.result \notin {"error", "timeout"}) =>
                /\ i = Len(seen.trace)
                /\ pc = "done" /\ diags # <<>>
                /\ diags[Len(diags)] = FromErr(UnexpectedStateErr(c.result))
                /\ c.call = "get-package" => builds = 0
                /\ op = "dropletCreate" => id = ""
                /\ \A b \in 1..builds : /\ DropletOfBuild(b) \notin staged
                                         /\ desiredDroplet.GUID # DropletOfBuild(b)

C27_Witness ==
    /\ op = "dropletCreate" /\ pc = "done" /\ PipelineType = "buildpack"
    /\ Len(seen.trace) = 5
    /\ seen.trace[5] = [call |-> "get-build-state", result |-> "FAILED"]
    /\ diags = <<FromErr(UnexpectedStateErr("FAILED"))>>

\* C28: in one run of the staging pipeline, from an archive or from an image, each of
\* create-package, upload-bits and create-build is called at most once; the first
\* remote call that fails is the last remote call and the pipeline has returned with
\* its error, the only one; and no package or build is deleted: the platform holds
\* every package and build the pipeline created.
C28_PipelineCallsOnceNoCleanup ==
    LET t == seen.trace
        Calls(call) == {i \in 1..Len(t) : t[i].call = call}
        Made(call) == {i \in Calls(call) : t[i].result = "ok"}
        Failed(c) == \/ c.result \in {"error", "timeout"}
                     \/ c.call = "get-package" /\ c.result \notin packageSuccessStates
                     \/ c.call = "get-build-state" /\ c.result \notin buildSuccessStates
        errors == SelectSeq(diags, LAMBDA dg : dg.severity = "Error")
    IN  op \in {"dropletCreate", "appUpdate"} =>
          /\ \A call \in {"create-package", "upload-bits", "create-build"} :
                Cardinality(Calls(call)) <= 1
          /\ \A i \in 1..Len(t) :
                Failed(t[i]) => /\ i = Len(t) /\ pc = "done"
                                /\ Len(errors) = 1 /\ diags[Len(diags)] = errors[1]
          /\ packages = Cardinality(Made("create-package"))
          /\ builds = Cardinality(Made("create-build"))

C28_Witness ==
    /\ op = "dropletCreate" /\ pc = "done" /\ packages = 1 /\ builds = 0
    /\ seen.trace = <<[call |-> "create-package", result |-> "ok"],
                      [call |-> "upload-bits", result |-> "ok"],
                      [call |-> "get-package", result |-> "READY"],
                      [call |-> "create-build", result |-> "error"]>>
    /\ diags = diagFromClient("create-build", <<>>, CCError)

\* C29: the pipeline of an image creates a docker package with the image reference,
\* then the build, with no upload-bits call and no package wait between them, waits
\* for the build, reads it and gets its droplet: the remote calls made are the first
\* of create-package, create-build, the build wait, get-build and get-droplet, in
\* that order, get-droplet only after the build was observed staged, and the droplet
\* returned is the droplet of that build.
C29_ImageStepsInOrder ==
    (op \in {"dropletCreate", "appUpdate"} /\ PipelineType = "docker") =>
        LET t == seen.trace
            order == <<"create-package", "create-build", "get-build-state", "get-build",
                       "get-droplet">>
        IN  /\ Len(t) <= Len(order)
            /\ \A i \in 1..Len(t) :
                  /\ t[i].call = order[i]
                  /\ i < Len(t) => t[i].result = IF i = 3 THEN "STAGED" ELSE "ok"
            /\ packages > 0 =>
                  seen.package = [Type |-> "docker", DockerImage |-> cfg.docker_image]
            /\ pc = "p_createBuild" => Len(t) = 1
            /\ pc = "p_buildWait" => Len(t) = 2
            /\ pc \in {"p_getBuild", "p_getDroplet"} => DropletOfBuild(builds) \in staged
            /\ (Len(t) = 5 /\ t[5].result # "error") =>
                  /\ builds = 1 /\ t[5].result = DropletOfBuild(1)
                  /\ DropletOfBuild(1) \in staged
                  /\ IF op = "dropletCreate"
                     THEN /\ pc = "d_read" => id = DropletOfBuild(1)
                          /\ id \in {"", DropletOfBuild(1)}
                     ELSE desiredDroplet.GUID = DropletOfBuild(1)

C29_Witness ==
    /\ op = "dropletCreate" /\ PipelineType = "docker" /\ pc = "done"
    /\ id = "droplet-1" /\ packages = 1 /\ staged = {"droplet-1"}
    /\ seen.package = [Type |-> "docker", DockerImage |-> "image:1"]
    /\ seen.trace = <<[call |-> "create-package", result |-> "ok"],
                      [call |-> "create-build", result |-> "ok"],
                      [call |-> "get-build-state", result |-> "STAGED"],
                      [call |-> "get-build", result |-> "ok"],
                      [call |-> "get-droplet", result |-> "droplet-1"]>>

\* C30: every run of the deployment orchestrator, in the deployment resource and in
\* the update of the application resource, eventually returns, with a success or an
\* error, from every attempt and every wait it is in, having made at most the maximum
\* number of attempts of its path; and every wait has its timeout: it never goes on
\* beyond MaxPolls pending polls.
C30_OrchestratorReturns ==
    LET max == IF op = "appUpdate" THEN maxDeployAttempts ELSE MaxDeploymentAttempts
        waits == {"c_deployWait", "c_stabilize", "u_deployWait", "u_stabilize"}
    IN  /\ (pc \in {"c_create", "u_create"} \cup waits)
              ~> (/\ rollout \in {"ok", "error"} \/ pc \in {"done", "panic"}
                  /\ createCalls <= max /\ currentDeployAttempt <= max)
        /\ [](pc \in waits => polls <= MaxPolls)

C30_Witness ==
    /\ op = "deploymentCreate" /\ pc = "done" /\ rollout = "error"
    /\ createCalls = MaxDeploymentAttempts /\ attemptObs.failed = 1
    /\ failedSteps = {"other", "create-deployment"}

\* C31: after a lookup has reported the application missing, in the read and the
\* update of the application resource and at the second lookup of the create of the
\* deployment resource, the operation has returned: it reads no field of the nil
\* application record (which ends the provider in a panic) and makes no further call.
C31_MissingAppNotDereferenced ==
    (op \in {"appUpdate", "deploymentCreate"} /\ seen.missing # "") =>
        pc = "done" /\ pc # "panic"

\* C32: once the context of the operation is cancelled and the deployment wait of an
\* attempt has ended with the cancellation error, no create-deployment call is made:
\* no new attempt follows.
C32_NoAttemptAfterCancel ==
    [][(ctxDone /\ attemptObs.deployment = "cancelled")
          => (createCalls' = createCalls /\ deployments' = deployments)]_vars

\* C33: in the create of the deployment resource, the processes listed for the
\* stability wait after start-application are asked for the application that was
\* deployed and started, the one of app_id, and for no other identifier the resource
\* holds (its own ID, the GUID of the deployment).
C33_ListsProcessesOfTheApp ==
    (op = "deploymentCreate" /\ seen.listed # "") =>
        /\ seen.start = 1
        /\ seen.listed = app.GUID /\ seen.listed = AppGUID
        /\ seen.listed # "deployment-" \o ToString(deploymentGUID)

\* C34: whenever a create-deployment call is made, no deployment created by an
\* earlier attempt is still in status deploying on the platform, and at any time at
\* most one deployment is in that status, also after an attempt that ended by the
\* timeout of its deployment wait or by a get-deployment error.
C34_OneDeploymentInFlight ==
    [][/\ createCalls' = createCalls + 1 => deploying = {}
       /\ Cardinality(deploying') <= 1]_vars

C36_StartOnlyWithDroplet ==
    (/\ op \in {"appUpdate", "deploymentCreate"}
     /\ \/ seen.start > 0
        \/ pc \in {"c_start", "c_getProcs", "c_startStabilize",
                   "u_start", "u_getProcesses", "u_startStabilize"})
        => desiredDroplet.GUID # ""

\* the application was started and the stability wait after the start is polling
C36_Witness ==
    /\ op = "appUpdate" /\ pc = "u_startStabilize" /\ seen.start = 1 /\ polls > 0
    /\ desiredDroplet.GUID # ""

====
